---- MODULE Spec2Model ----
(***************************************************************************)
(* A model of the rustylisp runtime: the persistent vector                 *)
(* (core/obj/vec.rs), the chained environment (core/env.rs), the error     *)
(* chain (core/error.rs), procedure application (evaluator/lambda.rs) and  *)
(* the evaluator with its tail-call helpers (evaluator/mod.rs, tco.rs,     *)
(* special_form_handlers.rs, macros.rs).                                   *)
(***************************************************************************)
EXTENDS Integers, Sequences, FiniteSets, TLC

(***************************************************************************)
(* Bounds of the model.                                                    *)
(***************************************************************************)
MaxVecs == 3
MaxVecSize == 5
MaxFrames == 3
MaxProcs == 3
MaxCauses == 3
MaxClauses == 3
MaxArgs == 3
MaxForms == 3

VARIABLES
    nodes,      \* vec.rs: the heap of Rc<PersistentTrieNode>, by node id
    vecs,       \* vec.rs: the PersistentVec values built so far
    nodesPrev,  \* the node heap before the last vector operation
    vecOp       \* the last vector operation and what it returned

VARIABLES
    frames,     \* env.rs: the heap of Rc<RefCell<Environment>>, by frame id
    envOp,      \* the last environment operation and what it returned
    procLog     \* procedure.rs: the procedures constructed, in order

VARIABLES
    errCur,     \* error.rs: the RuntimeError under construction, if any
    errOp       \* the last error operation and what it returned

VARIABLES
    framesPrev, \* the frame heap before the last top-level evaluation
    evalOp,     \* the last top-level evaluation: form, outcome, events, depth
    evalCount   \* run/mod.rs: the number of forms the REPL has evaluated

VARIABLES
    stream,       \* parser.rs: Parser.stream, the characters not yet read
    stack,        \* parser.rs: Parser.stack, the open forms, innermost last
    char_handler, \* parser.rs: Parser.char_handler, if one was given
    parseOp       \* the last call of Parser::next and the item it returned

vecVars == <<nodes, vecs, nodesPrev, vecOp>>
envVars == <<frames, envOp, procLog>>
errVars == <<errCur, errOp>>
evalVars == <<framesPrev, evalOp, evalCount>>
parseVars == <<stream, stack, char_handler, parseOp>>

exceptVec == <<envVars, errVars, evalVars, parseVars>>
exceptEnv == <<vecVars, errVars, evalVars, parseVars>>
exceptErr == <<vecVars, envVars, evalVars, parseVars>>
exceptEval == <<vecVars, errVars, envOp, procLog, parseVars>>

vars == <<vecVars, envVars, errVars, evalVars, parseVars>>

(***************************************************************************)
(* Option<T>                                                               *)
(***************************************************************************)
None == [some |-> FALSE]
Some(x) == [some |-> TRUE, v |-> x]

(***************************************************************************)
(* core/obj/vec.rs                                                         *)
(***************************************************************************)
Leaf(l, r) == [k |-> "leaf", l |-> l, r |-> r]
Node(l, r) == [k |-> "node", lt |-> l, rt |-> r]

\* to_ref: Rc::new(node) allocates a new shared node and never touches an
\* existing one.
ToRef(h, node) == [h |-> Append(h, node), id |-> Len(h) + 1]

\* usize::next_power_of_two
RECURSIVE PowerOfTwoFrom(_, _)
PowerOfTwoFrom(p, n) == IF p >= n THEN p ELSE PowerOfTwoFrom(2 * p, n)
NextPowerOfTwo(n) == PowerOfTwoFrom(1, n)

RECURSIVE TrieWithSize(_, _)
TrieWithSize(h, size) ==
    IF size = 2
    THEN [h |-> h, node |-> Leaf(None, None)]
    ELSE LET half == size \div 2
             l == TrieWithSize(h, half)
             lref == ToRef(l.h, l.node)
             r == TrieWithSize(lref.h, half)
             rref == ToRef(r.h, r.node)
         IN [h |-> rref.h, node |-> Node(lref.id, rref.id)]

\* A with_size that records the requested size as the capacity.
VecWithSizeUnrounded(h, size) ==
    LET adj == NextPowerOfTwo(size)
        adjsize == IF adj < 2 THEN 2 ELSE adj
        t == TrieWithSize(h, adjsize)
        root == ToRef(t.h, t.node)
    IN [h |-> root.h,
        vec |-> [size |-> size, capacity |-> IF size < 2 THEN 2 ELSE size,
                 root |-> root.id]]

VecWithSize(h, size) ==
    LET adj == NextPowerOfTwo(size)
        adjsize == IF adj < 2 THEN 2 ELSE adj
        t == TrieWithSize(h, adjsize)
        root == ToRef(t.h, t.node)
    IN [h |-> root.h,
        vec |-> [size |-> size, capacity |-> adjsize, root |-> root.id]]

RECURSIVE TrieLookup(_, _, _, _)
TrieLookup(h, id, index, cap) ==
    LET half == cap \div 2
        left == index < half
        new_index == IF left THEN index ELSE index % half
        node == h[id]
    IN IF node.k = "node"
       THEN IF left THEN TrieLookup(h, node.lt, new_index, half)
                    ELSE TrieLookup(h, node.rt, new_index, half)
       ELSE IF cap # 2 THEN [some |-> FALSE, panic |-> TRUE]
            ELSE IF index = 0 THEN node.l
            ELSE IF index = 1 THEN node.r
            ELSE None

VecLookup(h, v, index) ==
    IF index >= v.size THEN None
    ELSE LET cap == IF v.capacity >= 2 THEN v.capacity ELSE 2
         IN TrieLookup(h, v.root, index, cap)

RECURSIVE TrieInsert(_, _, _, _, _)
\* PersistentTrieNode::insert: the new node for this subtree (not yet behind
\* an Rc), or None; the sibling subtree is shared by id.
TrieInsert(h, id, index, cap, item) ==
    LET half == cap \div 2
        left == index < half
        new_index == IF left THEN index ELSE index % half
        node == h[id]
    IN IF node.k = "node"
       THEN LET sub == TrieInsert(h, IF left THEN node.lt ELSE node.rt,
                                  new_index, half, item)
            IN IF ~sub.res.some THEN sub
               ELSE LET nref == ToRef(sub.h, sub.res.v)
                    IN [h |-> nref.h,
                        res |-> Some(IF left THEN Node(nref.id, node.rt)
                                             ELSE Node(node.lt, nref.id))]
       ELSE IF cap # 2 THEN [h |-> h, res |-> [some |-> FALSE, panic |-> TRUE]]
            ELSE IF index = 0
                 THEN [h |-> h, res |-> Some(Leaf(Some(item), node.r))]
            ELSE IF index = 1
                 THEN [h |-> h, res |-> Some(Leaf(node.l, Some(item)))]
            ELSE [h |-> h, res |-> None]

\* An insert that overwrites the root node in place instead of allocating.
VecInsertInPlace(h, v, index, item) ==
    IF index >= v.size THEN [h |-> h, res |-> None]
    ELSE LET t == TrieInsert(h, v.root, index, v.capacity, item)
         IN IF ~t.res.some THEN [h |-> t.h, res |-> None]
            ELSE [h |-> [t.h EXCEPT ![v.root] = t.res.v], res |-> Some(v)]

VecInsert(h, v, index, item) ==
    IF index >= v.size THEN [h |-> h, res |-> None]
    ELSE LET t == TrieInsert(h, v.root, index, v.capacity, item)
         IN IF ~t.res.some THEN [h |-> t.h, res |-> None]
            ELSE LET root == ToRef(t.h, t.res.v)
                 IN [h |-> root.h, res |-> Some([v EXCEPT !.root = root.id])]

(***************************************************************************)
(* core/obj/mod.rs: LispObj. Each variant keeps its payload under a field  *)
(* of its own.                                                             *)
(***************************************************************************)
\* LInteger(i64).  TLC's integers are 32 bits wide, so an i64 is written
\* q * 2^62 + n with q in -2..2 and n small: the values near 0, near
\* +-2^62 and near the two ends of the i64 range, with exact arithmetic.
I64(q, n) == [t |-> "int", q |-> q, n |-> n]
IntV(n) == I64(0, n)
MaxI64 == I64(2, -1)
MinI64 == I64(-2, 0)

\* q * 2^62 + n lies in -2^63 .. 2^63 - 1.
FitsI64(q, n) == q \in -1..1 \/ (q = 2 /\ n < 0) \/ (q = -2 /\ n >= 0)

\* The i64 congruent to q * 2^62 + n modulo 2^64.
WrapI64(q, n) ==
    I64(CASE q % 4 = 0 -> 0
          [] q % 4 = 1 -> 1
          [] q % 4 = 3 -> -1
          [] q % 4 = 2 -> IF n < 0 THEN 2 ELSE -2,
        n)

\* LFloat(f64): the f64 that op gives for l and r, kept as a term.
FloatV(op, l, r) == [t |-> "float", op |-> op, l |-> l, r |-> r]
Sym(s) == [t |-> "sym", s |-> s]
Nil == [t |-> "nil"]

(***************************************************************************)
(* core/env.rs: Environment. A frame id is an EnvironmentRef; parent 0 is  *)
(* None.                                                                   *)
(***************************************************************************)
MapPut(m, key, val) ==
    [x \in DOMAIN m \cup {key} |-> IF x = key THEN val ELSE m[x]]

MapGet(m, key) == IF key \in DOMAIN m THEN Some(m[key]) ELSE None

EnvironmentNew ==
    [parent |-> 0, bindings |-> <<>>, max_procedure_id |-> 0,
     macros |-> None, special_chars |-> None]

\* A from_parent that leaves the new frame without its parent.
FromParentDetached(fr, parent) ==
    [fr |-> Append(fr, EnvironmentNew), id |-> Len(fr) + 1]

\* Environment::from_parent(parent).to_env_ref()
FromParent(fr, parent) ==
    [fr |-> Append(fr, [EnvironmentNew EXCEPT !.parent = parent]),
     id |-> Len(fr) + 1]

RECURSIVE GetTopLevel(_, _)
\* A get_top_level that stops at the frame it starts from.
GetTopLevelCurrent(fr, e) == e

GetTopLevel(fr, e) ==
    IF fr[e].parent # 0 THEN GetTopLevel(fr, fr[e].parent) ELSE e

\* HashMap::insert on the frame's own bindings: the prior value is returned.
LetNew(fr, e, name, value) ==
    [fr |-> [fr EXCEPT ![e].bindings = MapPut(@, name, value)],
     res |-> MapGet(fr[e].bindings, name)]

\* A lookup that asks the parent chain first and the frame itself last.
RECURSIVE EnvLookup(_, _, _)
EnvLookupOuterFirst(fr, e, name) ==
    LET up == IF fr[e].parent # 0 THEN EnvLookup(fr, fr[e].parent, name)
              ELSE None
    IN IF up.some THEN up ELSE MapGet(fr[e].bindings, name)

EnvLookup(fr, e, name) ==
    LET lookup == MapGet(fr[e].bindings, name)
    IN IF lookup.some THEN lookup
       ELSE IF fr[e].parent # 0 THEN EnvLookup(fr, fr[e].parent, name)
            ELSE None

\* next_procedure_id. The counter is a u32; the model stops constructing
\* procedures long before it could wrap.
\* (Below: a counter kept by the frame the call starts from.)
RECURSIVE NextProcedureId(_, _)
NextProcedureIdLocal(fr, e) ==
    [fr |-> [fr EXCEPT ![e].max_procedure_id = @ + 1],
     id |-> fr[e].max_procedure_id]

NextProcedureId(fr, e) ==
    IF fr[e].parent # 0 THEN NextProcedureId(fr, fr[e].parent)
    ELSE [fr |-> [fr EXCEPT ![e].max_procedure_id = @ + 1],
          id |-> fr[e].max_procedure_id]

\* PersistentVec::new
VecNew(h) ==
    LET root == ToRef(h, Leaf(None, None))
    IN [h |-> root.h, vec |-> [size |-> 0, capacity |-> 2, root |-> root.id]]

\* PersistentVec::push: a full vector meets unimplemented!(), and unwrap()
\* panics on None.
VecPush(h, v, item) ==
    IF v.size < v.capacity
    THEN LET t == TrieInsert(h, v.root, v.size, v.capacity, item)
         IN IF ~t.res.some THEN [h |-> h, k |-> "panic"]
            ELSE LET root == ToRef(t.h, t.res.v)
                 IN [h |-> root.h, k |-> "ok",
                     vec |-> [v EXCEPT !.size = v.size + 1, !.root = root.id]]
    ELSE [h |-> h, k |-> "panic"]

\* Iterator::next of a source that yields items: the source is at position
\* pos, and stays at its end once there.
SourceNext(items, pos) ==
    IF pos <= Len(items) THEN [item |-> Some(items[pos]), pos |-> pos + 1]
    ELSE [item |-> None, pos |-> pos]

\* PersistentTrieNode::from_iter_mut: the new node (not yet behind an Rc) and
\* the position the source is left at.  count <= cap holds in every call.
RECURSIVE TrieFromIterMut(_, _, _, _, _)
TrieFromIterMut(h, items, pos, count, cap) ==
    IF cap = 0 THEN [h |-> h, node |-> Leaf(None, None), pos |-> pos]
    ELSE IF cap = 1
    THEN [h |-> h, node |-> Leaf(SourceNext(items, pos).item, None),
          pos |-> SourceNext(items, pos).pos]
    ELSE IF cap = 2
    THEN LET first == SourceNext(items, pos)
             second == SourceNext(items, first.pos)
         IN [h |-> h, node |-> Leaf(first.item, second.item),
             pos |-> second.pos]
    ELSE LET next == cap \div 2
             diff == IF count >= next THEN count - next ELSE 0
             left == TrieFromIterMut(h, items, pos, next, next)
             right == TrieFromIterMut(left.h, items, left.pos, diff, next)
             lref == ToRef(right.h, left.node)
             rref == ToRef(lref.h, right.node)
         IN [h |-> rref.h, node |-> Node(lref.id, rref.id), pos |-> right.pos]

\* PersistentVec::from_iter_mut
VecFromIterMut(h, items, size) ==
    LET c == NextPowerOfTwo(size)
        cap == IF c < 2 THEN 2 ELSE c
        t == TrieFromIterMut(h, items, 1, size, cap)
        root == ToRef(t.h, t.node)
    IN [h |-> root.h,
        vec |-> [size |-> size, capacity |-> cap, root |-> root.id]]

\* FromIterator::from_iter for a source that yields items and whose
\* size_hint has the upper bound high: the bound is taken for the length
\* when there is one, and the items are counted when there is none.
VecFromIter(h, items, high) ==
    IF high.some THEN VecFromIterMut(h, items, high.v)
    ELSE VecFromIterMut(h, items, Len(items))

\* PersistentVec::repeating: from_iter_mut on a source that yields the item
\* every time it is asked; the trie asks at most as often as the capacity.
VecRepeating(h, size, item) ==
    VecFromIterMut(h, [i \in 1..(2 * size + 2) |-> item], size)

\* Iter::next from position cur until None: the items yielded, or the panic
\* of expect("vec::Iter::next : invalid size").
RECURSIVE IterFrom(_, _, _)
IterFrom(h, v, cur) ==
    IF cur = v.size THEN [k |-> "ok", items |-> <<>>]
    ELSE IF ~TrieLookup(h, v.root, cur, v.capacity).some
         THEN [k |-> "panic", items |-> <<>>]
         ELSE [k |-> IterFrom(h, v, cur + 1).k,
               items |-> <<TrieLookup(h, v.root, cur, v.capacity).v>>
                         \o IterFrom(h, v, cur + 1).items]

\* PersistentVec::iter
VecIter(h, v) == IterFrom(h, v, 0)

(***************************************************************************)
(* The vector specification: vectors are built and updated, every vector   *)
(* built so far stays available to later operations.                       *)
(***************************************************************************)
VecItems == {1, 2}

VecIdle ==
    /\ nodes = <<>>
    /\ vecs = <<>>
    /\ nodesPrev = <<>>
    /\ vecOp = [op |-> "none"]

EnvIdle ==
    /\ frames = <<>>
    /\ envOp = [op |-> "none"]
    /\ procLog = <<>>

ErrIdle ==
    /\ errCur = None
    /\ errOp = [op |-> "none"]

EvalIdle ==
    /\ framesPrev = <<>>
    /\ evalOp = [op |-> "none"]
    /\ evalCount = 0

ParseIdle ==
    /\ stream = <<>>
    /\ stack = <<>>
    /\ char_handler = None
    /\ parseOp = [op |-> "none"]

VecInit == VecIdle /\ EnvIdle /\ ErrIdle /\ EvalIdle /\ ParseIdle

DoWithSize ==
    /\ Len(vecs) < MaxVecs
    /\ \E n \in 0..MaxVecSize :
         LET r == VecWithSize(nodes, n)
         IN /\ nodes' = r.h
            /\ vecs' = Append(vecs, r.vec)
            /\ nodesPrev' = nodes
            /\ vecOp' = [op |-> "with_size", size |-> n, out |-> Len(vecs) + 1]
            /\ UNCHANGED exceptVec

DoInsert ==
    /\ Len(vecs) < MaxVecs
    /\ \E s \in 1..Len(vecs), x \in VecItems :
       \E i \in 0..vecs[s].size :
         LET r == VecInsert(nodes, vecs[s], i, x)
         IN /\ nodes' = r.h
            /\ vecs' = IF r.res.some THEN Append(vecs, r.res.v) ELSE vecs
            /\ nodesPrev' = nodes
            /\ vecOp' = [op |-> "insert", src |-> s, index |-> i, item |-> x,
                         some |-> r.res.some,
                         out |-> IF r.res.some THEN Len(vecs) + 1 ELSE 0]
            /\ UNCHANGED exceptVec

VecNext == DoWithSize \/ DoInsert

SpecVec == VecInit /\ [][VecNext]_vars

(***************************************************************************)
(* C1: insert is persistent. After v.insert(i, x) with i < v.size the      *)
(* result v2 has lookup(i) = x, agrees with v on every other index, has    *)
(* the size (and capacity) of v, and every vector that existed before the  *)
(* insert, v included, answers every lookup as it did before.              *)
(***************************************************************************)
InsertIsPersistent ==
    vecOp.op = "insert" =>
        LET v == vecs[vecOp.src]
        IN /\ vecOp.some <=> vecOp.index < v.size
           /\ vecOp.some =>
                LET v2 == vecs[vecOp.out]
                IN /\ VecLookup(nodes, v2, vecOp.index) = Some(vecOp.item)
                   /\ \A j \in 0..MaxVecSize + 1 :
                        j # vecOp.index =>
                          VecLookup(nodes, v2, j) = VecLookup(nodes, v, j)
                   /\ v2.size = v.size
                   /\ v2.capacity = v.capacity
           /\ \A w \in 1..Len(vecs) :
                (w # vecOp.out) =>
                  \A j \in 0..MaxVecSize + 1 :
                    VecLookup(nodes, vecs[w], j) = VecLookup(nodesPrev, vecs[w], j)

\* An insert into the right half of a vector that already holds another
\* value has happened.
InsertWitness ==
    /\ vecOp.op = "insert"
    /\ vecOp.some
    /\ vecOp.index >= 2
    /\ \E j \in 0..MaxVecSize :
         /\ j # vecOp.index
         /\ VecLookup(nodes, vecs[vecOp.src], j).some

(***************************************************************************)
(* The environment specification: a chain of frames grows by a child of    *)
(* its innermost frame, names are bound in any frame of the chain, and any *)
(* name is looked up from any frame.                                       *)
(***************************************************************************)
EnvNames == {"a", "b"}
EnvValues == {IntV(1), IntV(2)}

EnvInit ==
    /\ VecIdle
    /\ ErrIdle
    /\ EvalIdle
    /\ ParseIdle
    /\ frames = <<EnvironmentNew>>
    /\ envOp = [op |-> "none"]
    /\ procLog = <<>>

DoFromParent ==
    /\ Len(frames) < MaxFrames
    /\ frames' = FromParent(frames, Len(frames)).fr
    /\ envOp' = [op |-> "from_parent", parent |-> Len(frames)]
    /\ UNCHANGED <<exceptEnv, procLog>>

DoLetNew ==
    /\ \E e \in 1..Len(frames), n \in EnvNames, v \in EnvValues :
         /\ frames' = LetNew(frames, e, n, v).fr
         /\ envOp' = [op |-> "let_new", env |-> e, name |-> n]
    /\ UNCHANGED <<exceptEnv, procLog>>

DoLookup ==
    /\ \E e \in 1..Len(frames), n \in EnvNames :
         envOp' = [op |-> "lookup", env |-> e, name |-> n,
                   res |-> EnvLookup(frames, e, n)]
    /\ UNCHANGED <<exceptEnv, frames, procLog>>

EnvNext == DoFromParent \/ DoLetNew \/ DoLookup

SpecEnv == EnvInit /\ [][EnvNext]_vars

\* The frames from e outward to the root, nearest first.
RECURSIVE ChainOf(_, _)
ChainOf(fr, e) ==
    IF fr[e].parent = 0 THEN <<e>> ELSE <<e>> \o ChainOf(fr, fr[e].parent)

(***************************************************************************)
(* C2: lookup implements lexical shadowing. A lookup of a name from a      *)
(* frame returns the value bound in the nearest frame of its chain that    *)
(* defines the name, and None exactly when no frame of the chain does.     *)
(***************************************************************************)
LookupShadows ==
    envOp.op = "lookup" =>
        LET chain == ChainOf(frames, envOp.env)
            defining == {i \in 1..Len(chain) :
                           envOp.name \in DOMAIN frames[chain[i]].bindings}
        IN /\ (defining = {}) <=> ~envOp.res.some
           /\ defining # {} =>
                LET near == CHOOSE i \in defining : \A j \in defining : i <= j
                IN envOp.res = Some(frames[chain[near]].bindings[envOp.name])

\* A lookup has started below two frames that bind the name to different
\* values, the nearer one not being the starting frame.
LookupWitness ==
    /\ envOp.op = "lookup"
    /\ LET chain == ChainOf(frames, envOp.env)
       IN /\ Len(chain) = 3
          /\ envOp.name \notin DOMAIN frames[chain[1]].bindings
          /\ envOp.name \in DOMAIN frames[chain[2]].bindings
          /\ envOp.name \in DOMAIN frames[chain[3]].bindings
          /\ frames[chain[2]].bindings[envOp.name]
               # frames[chain[3]].bindings[envOp.name]

(***************************************************************************)
(* The procedure-id specification: frames are created under any frame and  *)
(* procedures are constructed from any frame (Procedure::new).             *)
(***************************************************************************)
\* Procedure::new: the id comes from next_procedure_id of the closure frame.
ProcedureNew(fr, e, name, doc, body) ==
    LET r == NextProcedureId(fr, e)
    IN [fr |-> r.fr,
        proc |-> [t |-> "proc", env |-> e, name |-> name, id |-> r.id,
                  documentation |-> doc, body |-> body]]

DoIdFromParent ==
    /\ Len(frames) < MaxFrames
    /\ \E p \in 1..Len(frames) :
         /\ frames' = FromParent(frames, p).fr
         /\ envOp' = [op |-> "from_parent", parent |-> p]
    /\ UNCHANGED <<exceptEnv, procLog>>

DoProcedureNew ==
    /\ Len(procLog) < MaxProcs
    /\ \E e \in 1..Len(frames) :
         LET r == ProcedureNew(frames, e, None, None, <<>>)
         IN /\ frames' = r.fr
            /\ procLog' = Append(procLog, r.proc)
            /\ envOp' = [op |-> "procedure_new", env |-> e]
    /\ UNCHANGED exceptEnv

IdsNext == DoIdFromParent \/ DoProcedureNew

SpecIds == EnvInit /\ [][IdsNext]_vars

(***************************************************************************)
(* C10: procedure ids are unique and increasing. Whatever frames the       *)
(* procedures are constructed from, only the root frame's counter moves,   *)
(* and the ids are strictly increasing in construction order (so pairwise  *)
(* distinct).                                                              *)
(***************************************************************************)
ProcedureIdsIncrease ==
    /\ \A e \in 1..Len(frames) :
         frames[e].parent # 0 => frames[e].max_procedure_id = 0
    /\ \A i, j \in 1..Len(procLog) :
         i < j => procLog[i].id < procLog[j].id
    /\ \A i \in 1..Len(procLog) : procLog[i].id < frames[1].max_procedure_id

\* Procedures have been constructed from the root, from a child and from a
\* grandchild frame.
ProcedureIdsWitness ==
    /\ Len(procLog) >= 3
    /\ \E i, j, k \in 1..Len(procLog) :
         /\ frames[procLog[i].env].parent = 0
         /\ frames[procLog[j].env].parent # 0
         /\ frames[procLog[k].env].parent # 0
         /\ frames[frames[procLog[k].env].parent].parent # 0

(***************************************************************************)
(* core/error.rs: RuntimeError. The cause is None or Some(RuntimeError).   *)
(***************************************************************************)
RuntimeErrorNew(errtype, val, cause, source) ==
    [errname |-> errtype, value |-> val, cause |-> cause, source |-> source]

\* A new_from that gives the new node a kind and a value of its own.
NewFromRelabelled(cause, source) ==
    RuntimeErrorNew("runtime-error", None, Some(cause), Some(source))

\* new_from: the kind and value of the cause are copied into the new node.
NewFrom(cause, source) ==
    RuntimeErrorNew(cause.errname, cause.value, Some(cause), Some(source))

WithSource(err, source) ==
    RuntimeErrorNew(err.errname, err.value, err.cause, Some(source))

WithCause(err, cause) ==
    RuntimeErrorNew(err.errname, err.value, Some(cause), err.source)

\* A flattening that puts each popped node in front of the earlier ones.
RECURSIVE TracebackLoop(_, _)
TracebackLoopReversed(out, val) ==
    IF val.cause.some
    THEN TracebackLoop(<<[val EXCEPT !.cause = None]>> \o out, val.cause.v)
    ELSE <<val>> \o out

\* The while loop of into_traceback: pop_cause takes the cause out of val,
\* val (now without a cause) is pushed, and the cause becomes val.
TracebackLoop(out, val) ==
    IF val.cause.some
    THEN TracebackLoop(Append(out, [val EXCEPT !.cause = None]), val.cause.v)
    ELSE Append(out, val)

IntoTraceback(err) == TracebackLoop(<<>>, err)

(***************************************************************************)
(* The error specification: an error is raised, wrapped by later errors    *)
(* (RuntimeError::new with a cause, new_from), given a source, and         *)
(* flattened.                                                              *)
(***************************************************************************)
ErrKinds == {"type-error", "arity-error"}
ErrValues == {None, Some(IntV(1))}
ErrSources == {Sym("f"), Sym("g")}

RECURSIVE ChainLength(_)
ChainLength(err) == IF err.cause.some THEN 1 + ChainLength(err.cause.v) ELSE 1

ErrInit ==
    /\ VecIdle
    /\ EnvIdle
    /\ ErrIdle
    /\ EvalIdle
    /\ ParseIdle

DoErrorNew ==
    /\ \E k \in ErrKinds, v \in ErrValues, s \in {None} \cup {Some(x) : x \in ErrSources} :
         \E c \in {None, errCur} :
           /\ c.some => ChainLength(c.v) < MaxCauses
           /\ errCur' = Some(RuntimeErrorNew(k, v, c, s))
           /\ errOp' = [op |-> "new"]
    /\ UNCHANGED exceptErr

DoNewFrom ==
    /\ errCur.some
    /\ ChainLength(errCur.v) < MaxCauses
    /\ \E s \in ErrSources :
         /\ errCur' = Some(NewFrom(errCur.v, s))
         /\ errOp' = [op |-> "new_from"]
    /\ UNCHANGED exceptErr

DoWithSource ==
    /\ errCur.some
    /\ \E s \in ErrSources :
         /\ errCur' = Some(WithSource(errCur.v, s))
         /\ errOp' = [op |-> "with_source"]
    /\ UNCHANGED exceptErr

\* into_traceback consumes the error.
DoIntoTraceback ==
    /\ errCur.some
    /\ errCur' = None
    /\ errOp' = [op |-> "into_traceback", err |-> errCur.v,
                 out |-> IntoTraceback(errCur.v)]
    /\ UNCHANGED exceptErr

ErrNext == DoErrorNew \/ DoNewFrom \/ DoWithSource \/ DoIntoTraceback

SpecErr == ErrInit /\ [][ErrNext]_vars

\* The i-th node of the cause chain, the error itself being the first.
RECURSIVE ChainNode(_, _)
ChainNode(err, i) == IF i = 1 THEN err ELSE ChainNode(err.cause.v, i - 1)

(***************************************************************************)
(* C8: into_traceback flattens the cause chain in order. For a chain of k  *)
(* nodes it returns k errors, the outermost first and the innermost cause  *)
(* last, the i-th being the i-th node of the chain with its kind, value    *)
(* and source unchanged.                                                   *)
(***************************************************************************)
TracebackInOrder ==
    errOp.op = "into_traceback" =>
        LET k == ChainLength(errOp.err)
        IN /\ Len(errOp.out) = k
           /\ \A i \in 1..k :
                LET node == ChainNode(errOp.err, i)
                IN /\ errOp.out[i].errname = node.errname
                   /\ errOp.out[i].value = node.value
                   /\ errOp.out[i].source = node.source

\* A chain of three nodes of which the outermost and the innermost differ
\* in kind has been flattened.
TracebackWitness ==
    /\ errOp.op = "into_traceback"
    /\ ChainLength(errOp.err) = 3
    /\ ChainNode(errOp.err, 1).errname # ChainNode(errOp.err, 3).errname
    /\ ChainNode(errOp.err, 1).source # ChainNode(errOp.err, 2).source

(***************************************************************************)
(* core/obj/mod.rs: the remaining LispObj variants and list helpers.       *)
(***************************************************************************)
\* A string; the text of a formatted message is kept as the tuple of its
\* parts.
Str(s) == [t |-> "str", str |-> s]
Cons(car, cdr) == [t |-> "cons", car |-> car, cdr |-> cdr]
Native(name) == [t |-> "native", fname |-> name]
LError(err) == [t |-> "error", err |-> err]

\* with_name on an LProcedure
WithName(p, name) == [p EXCEPT !.name = Some(name)]

Falsey(obj) ==
    \/ obj.t = "nil"
    \/ obj.t = "int" /\ obj.q = 0 /\ obj.n = 0
    \/ obj.t = "str" /\ obj.str = <<>>
    \/ obj.t = "sym" /\ obj.s = "false"
    \/ obj.t = "vec" /\ obj.size = 0

\* list_to_vec / the plain flatten_list!: None for an improper list
RECURSIVE ListToVec(_)
ListToVec(ls) ==
    IF ls.t = "cons"
    THEN LET rest == ListToVec(ls.cdr)
         IN IF rest.some THEN Some(<<ls.car>> \o rest.v) ELSE None
    ELSE IF ls.t = "nil" THEN Some(<<>>) ELSE None

RECURSIVE ToLispList(_)
ToLispList(objs) ==
    IF objs = <<>> THEN Nil ELSE Cons(Head(objs), ToLispList(Tail(objs)))

(***************************************************************************)
(* core/env.rs: macros, swap and clear.                                    *)
(***************************************************************************)
ClearBindings(fr, e) ==
    [fr EXCEPT ![e].bindings = <<>>, ![e].macros = None,
               ![e].special_chars = None]

LetMacro(fr, e, name, value) ==
    IF fr[e].macros.some
    THEN [fr |-> [fr EXCEPT ![e].macros = Some(MapPut(@.v, name, value))],
          res |-> MapGet(fr[e].macros.v, name)]
    ELSE [fr |-> [fr EXCEPT ![e].macros = Some(MapPut(<<>>, name, value))],
          res |-> None]

RECURSIVE LookupMacro(_, _, _)
LookupMacro(fr, e, name) ==
    LET lookup == IF fr[e].macros.some THEN MapGet(fr[e].macros.v, name)
                  ELSE None
    IN IF lookup.some THEN lookup
       ELSE IF fr[e].parent # 0 THEN LookupMacro(fr, fr[e].parent, name)
            ELSE None

RECURSIVE SwapValues(_, _, _, _)
\* A swap that binds the name in the outermost frame when no frame has it.
SwapValuesCreating(fr, e, name, new_val) ==
    IF name \in DOMAIN fr[e].bindings
    THEN [fr |-> [fr EXCEPT ![e].bindings[name] = new_val],
          res |-> Some(fr[e].bindings[name])]
    ELSE IF fr[e].parent # 0 THEN SwapValues(fr, fr[e].parent, name, new_val)
         ELSE [fr |-> [fr EXCEPT ![e].bindings = MapPut(@, name, new_val)],
               res |-> None]

SwapValues(fr, e, name, new_val) ==
    IF name \in DOMAIN fr[e].bindings
    THEN [fr |-> [fr EXCEPT ![e].bindings[name] = new_val],
          res |-> Some(fr[e].bindings[name])]
    ELSE IF fr[e].parent # 0 THEN SwapValues(fr, fr[e].parent, name, new_val)
         ELSE [fr |-> fr, res |-> None]

\* The number of nested Environment::lookup calls one lookup makes.
RECURSIVE LookupCalls(_, _, _)
LookupCalls(fr, e, name) ==
    IF name \in DOMAIN fr[e].bindings \/ fr[e].parent = 0 THEN 1
    ELSE 1 + LookupCalls(fr, fr[e].parent, name)

(***************************************************************************)
(* The evaluator's machine state st: the frame heap fr, the log tr of      *)
(* evaluation events and the deepest nesting maxd of host calls so far.    *)
(* Every evaluation function takes st and its own nesting depth d and      *)
(* returns the new st with an outcome k: "ok" with a value, "err" with a   *)
(* RuntimeError, or "panic" (a failed assertion or index, which unwinds    *)
(* through every caller).                                                  *)
(***************************************************************************)
Ok(st, v) == [st |-> st, k |-> "ok", v |-> v]
Err(st, e) == [st |-> st, k |-> "err", v |-> e]
Panic(st, msg) == [st |-> st, k |-> "panic", v |-> msg]

\* runtime_error!(name, msg...)
RuntimeErr(st, name, msg) ==
    Err(st, RuntimeErrorNew(name, Some(Str(msg)), None, None))

Log(st, event) == [st EXCEPT !.tr = Append(@, event)]
Enter(st, d) == [st EXCEPT !.maxd = IF d > @ THEN d ELSE @]

(***************************************************************************)
(* evaluator/lambda.rs: argument lists and argument binding.               *)
(***************************************************************************)
ArityObj(names, rest) == [argnames |-> names, rest |-> rest]

\* parse_arglist: (a b), (a . rest) or rest
RECURSIVE ParseArglistLoop(_, _, _)
ParseArglistLoop(st, arglist, argnames) ==
    IF arglist.t = "nil" THEN Ok(st, ArityObj(argnames, None))
    ELSE IF arglist.t = "sym" THEN Ok(st, ArityObj(argnames, Some(arglist.s)))
    ELSE IF arglist.t = "cons"
         THEN IF arglist.car.t = "sym"
              THEN ParseArglistLoop(st, arglist.cdr,
                                    Append(argnames, arglist.car.s))
              ELSE RuntimeErr(st, "syntax-error", <<"ill-formed argument list">>)
         ELSE RuntimeErr(st, "syntax-error", <<"invalid argument list">>)

ParseArglist(st, args) == ParseArglistLoop(st, args, <<>>)

\* parse_args_into: the frame is cleared, then each name is bound; the
\* assert!s panic when let_new finds the name already bound.
RECURSIVE BindPositional(_, _, _, _, _)
BindPositional(st, arity, ind, args, e) ==
    IF ind > Len(arity.argnames)
    THEN IF arity.rest.some
         THEN LET b == LetNew(st.fr, e, arity.rest.v, args)
              IN IF b.res.some THEN Panic([st EXCEPT !.fr = b.fr], "assert")
                 ELSE Ok([st EXCEPT !.fr = b.fr], Nil)
         ELSE IF args.t = "nil" THEN Ok(st, Nil)
              ELSE RuntimeErr(st, "arity-error", <<"Extra args", args>>)
    ELSE IF args.t = "cons"
         THEN LET b == LetNew(st.fr, e, arity.argnames[ind], args.car)
              IN IF b.res.some THEN Panic([st EXCEPT !.fr = b.fr], "assert")
                 ELSE BindPositional([st EXCEPT !.fr = b.fr], arity, ind + 1,
                                     args.cdr, e)
         ELSE RuntimeErr(st, "arity-error",
                         <<"Too few args", Len(arity.argnames), ind - 1>>)

\* A parse_args_into that binds without clearing the frame first.
ParseArgsIntoUncleared(st, arity, args, e) ==
    BindPositional(st, arity, 1, args, e)

ParseArgsInto(st, arity, args, e) ==
    BindPositional([st EXCEPT !.fr = ClearBindings(@, e)], arity, 1, args, e)

\* A dispatch that settles on the last clause whenever the first one fails.
RECURSIVE TryClauses(_, _, _, _, _)
TryClausesFirstOrLast(st, procd, args, reuse_env, i) ==
    LET last == Len(procd.body)
        r == ParseArgsInto(st, procd.body[i].arity, args, reuse_env)
    IN IF i = last \/ r.k # "err"
       THEN IF r.k = "ok"
            THEN Ok(r.st, [env |-> reuse_env, clause |-> i,
                           body |-> procd.body[i].body])
            ELSE r
       ELSE TryClauses(r.st, procd, args, reuse_env, last)

\* start_procedure_from: the clauses before the last are tried in order and
\* a failing one is skipped; the last clause's outcome is returned as is.
TryClauses(st, procd, args, reuse_env, i) ==
    LET last == Len(procd.body)
        r == ParseArgsInto(st, procd.body[i].arity, args, reuse_env)
    IN IF i = last \/ r.k # "err"
       THEN IF r.k = "ok"
            THEN Ok(r.st, [env |-> reuse_env, clause |-> i,
                           body |-> procd.body[i].body])
            ELSE r
       ELSE TryClauses(r.st, procd, args, reuse_env, i + 1)

StartProcedureFrom(st, procd, args, reuse_env) ==
    IF Len(procd.body) = 0 THEN Panic(st, "Procedure needs at least 1 body")
    ELSE TryClauses(st, procd, args, reuse_env, 1)

StartProcedure(st, procd, args) ==
    LET new_env == FromParent(st.fr, procd.env)
    IN StartProcedureFrom([st EXCEPT !.fr = new_env.fr], procd, args,
                          new_env.id)

(***************************************************************************)
(* The dispatch specification: a multiple-arity procedure is created       *)
(* (Procedure::multiple_arity) and started on argument lists               *)
(* (start_procedure).  Clause i has the body <<i>>.  The frame that        *)
(* start_procedure returns is owned by its caller; its bindings are        *)
(* recorded in envOp.                                                      *)
(***************************************************************************)
DispatchArities ==
    <<ArityObj(<<>>, None), ArityObj(<<"a">>, None),
      ArityObj(<<"a", "b">>, None), ArityObj(<<"a">>, Some("r")),
      ArityObj(<<>>, Some("r"))>>

RECURSIVE IntList(_, _)
IntList(from, to) ==
    IF from > to THEN Nil ELSE Cons(IntV(from), IntList(from + 1, to))

\* overflow_checks is the build's setting of integer overflow checks: on in
\* a debug build, off in a release build.
NewStateBuilt(fr, overflow_checks) ==
    [fr |-> fr, tr |-> <<>>, maxd |-> 0, overflow_checks |-> overflow_checks]
NewState(fr) == NewStateBuilt(fr, TRUE)

DoMultipleArity ==
    /\ procLog = <<>>
    /\ \E n \in 1..MaxClauses :
         \E pick \in [1..n -> 1..Len(DispatchArities)] :
           LET clauses == [i \in 1..n |->
                             [arity |-> DispatchArities[pick[i]],
                              body |-> <<IntV(i)>>]]
               r == ProcedureNew(frames, 1, None, None, clauses)
           IN /\ frames' = r.fr
              /\ procLog' = <<r.proc>>
              /\ envOp' = [op |-> "multiple_arity"]
    /\ UNCHANGED exceptEnv

DoStartProcedure ==
    /\ procLog # <<>>
    /\ \E n \in 0..MaxArgs :
         LET args == IntList(1, n)
             r == StartProcedure(NewState(frames), procLog[1], args)
         IN envOp' = [op |-> "start_procedure", args |-> args, nargs |-> n,
                      k |-> r.k, v |-> r.v,
                      bindings |-> IF r.k = "ok"
                                   THEN r.st.fr[r.v.env].bindings ELSE <<>>,
                      parent |-> IF r.k = "ok"
                                 THEN r.st.fr[r.v.env].parent ELSE 0]
    /\ UNCHANGED <<exceptEnv, frames, procLog>>

DispatchNext == DoMultipleArity \/ DoStartProcedure

SpecDispatch == EnvInit /\ [][DispatchNext]_vars

\* An argument list of n items fits an arity.
ArityMatches(arity, n) ==
    IF arity.rest.some THEN n >= Len(arity.argnames)
    ELSE n = Len(arity.argnames)

\* The bindings an arity gives to the argument list 1..n.
ArityBindings(arity, n) ==
    [name \in {arity.argnames[i] : i \in 1..Len(arity.argnames)}
              \cup (IF arity.rest.some THEN {arity.rest.v} ELSE {}) |->
        IF arity.rest.some /\ name = arity.rest.v
        THEN IntList(Len(arity.argnames) + 1, n)
        ELSE IntV(CHOOSE i \in 1..Len(arity.argnames) :
                      arity.argnames[i] = name)]

\* The arity-error of binding the argument list 1..n against an arity that
\* it does not fit.
ArityMismatch(arity, n) ==
    IF n < Len(arity.argnames)
    THEN RuntimeErrorNew("arity-error",
             Some(Str(<<"Too few args", Len(arity.argnames), n>>)), None, None)
    ELSE RuntimeErrorNew("arity-error",
             Some(Str(<<"Extra args", IntList(Len(arity.argnames) + 1, n)>>)),
             None, None)

\* C9: starting a procedure with clauses c1..cn on an argument list selects
\* the body of the first clause, in declaration order, whose arity fits the
\* list, with exactly that clause's parameters bound in a frame whose parent
\* is the closure environment; if no clause fits, the result is the
\* arity-error of binding against the last clause cn.
DispatchInOrder ==
    envOp.op = "start_procedure" =>
        LET clauses == procLog[1].body
            fits == {i \in 1..Len(clauses) :
                        ArityMatches(clauses[i].arity, envOp.nargs)}
        IN IF fits # {}
           THEN LET first == CHOOSE i \in fits : \A j \in fits : i <= j
                IN /\ envOp.k = "ok"
                   /\ envOp.v.clause = first
                   /\ envOp.v.body = clauses[first].body
                   /\ envOp.bindings =
                          ArityBindings(clauses[first].arity, envOp.nargs)
                   /\ envOp.parent = procLog[1].env
           ELSE /\ envOp.k = "err"
                /\ envOp.v = ArityMismatch(clauses[Len(clauses)].arity,
                                           envOp.nargs)

\* The first clause does not fit, the second and the third both do, and the
\* second was selected.
DispatchWitness ==
    /\ envOp.op = "start_procedure"
    /\ Len(procLog[1].body) = 3
    /\ ~ArityMatches(procLog[1].body[1].arity, envOp.nargs)
    /\ ArityMatches(procLog[1].body[2].arity, envOp.nargs)
    /\ ArityMatches(procLog[1].body[3].arity, envOp.nargs)
    /\ procLog[1].body[2].arity # procLog[1].body[3].arity
    /\ envOp.k = "ok"
    /\ envOp.v.clause = 2

(***************************************************************************)
(* evaluator/mod.rs, tco.rs, lambda.rs, macros.rs, special_form_handlers.rs*)
(* and builtins/mod.rs: the evaluation functions.  Forms hold no special   *)
(* character objects, so flatten_list! and map_eval take their plain       *)
(* branch.  Floats and integer overflow are left out.                      *)
(***************************************************************************)
\* try!: an outcome other than Ok is returned to the caller at once.
Try(r, K(_)) == IF r.k # "ok" THEN r ELSE K(r)

\* let x = ...;
Bind(x, K(_)) == K(x)

\* The evaluation functions call one another.
RECURSIVE Eval(_, _, _, _)
RECURSIVE MapEval(_, _, _, _)
RECURSIVE Apply(_, _, _, _, _)
RECURSIVE LambdaApply(_, _, _, _)
RECURSIVE SpecialFormTcoUntilLast(_, _, _, _, _)
RECURSIVE HandleSpecialFormTco(_, _, _, _, _)
RECURSIVE Handler(_, _, _, _, _)
RECURSIVE TryMacroExpand(_, _, _, _, _)
RECURSIVE NativeCall(_, _, _, _, _)
RECURSIVE LambdaApplyLoop(_, _, _, _, _)
RECURSIVE LetBind(_, _, _, _, _)
RECURSIVE EvalAllButLast(_, _, _, _, _)
RECURSIVE AndLoop(_, _, _, _, _, _)
RECURSIVE OrLoop(_, _, _, _, _, _)
RECURSIVE QuasiquoteHelper(_, _, _, _)

IsSelfEvaluating(obj) == obj.t \in {"int", "float", "str", "nil"}

HANDLERS ==
    {"and", "begin", "case-lambda", "catch-error", "define", "define-macro",
     "if", "lambda", "let", "or", "quote", "quasiquote", "set!"}

TCO_BUILTINS == {"begin", "if", "let"}

\* unpack_args! for two arguments of type Any
UnpackTwo(st, args) ==
    IF Len(args) < 2 THEN RuntimeErr(st, "arity-error", <<"Too few args">>)
    ELSE IF Len(args) # 2
         THEN RuntimeErr(st, "arity-error", <<"Too many args", 2, Len(args)>>)
         ELSE Ok(st, args)

(************************** tco.rs *****************************************)
EvalAllButLast(st, args, i, env, d) ==
    IF i >= Len(args) THEN Ok(st, args[Len(args)])
    ELSE Try(Eval(st, args[i], env, d + 1),
             LAMBDA r : EvalAllButLast(r.st, args, i + 1, env, d))

BeginUntilLast(st, args, env, d) ==
    IF Len(args) = 0 THEN Ok(Enter(st, d), Nil)
    ELSE EvalAllButLast(Enter(st, d), args, 1, env, d)

\* An if that evaluates the branch it does not take as well.
IfUntilLastBoth(st, args, env, d) ==
    IF Len(args) # 3
    THEN RuntimeErr(Enter(st, d), "syntax-error",
                    <<"wrong number of arguments to if", ToLispList(args)>>)
    ELSE Try(Eval(Enter(st, d), args[1], env, d + 1),
             LAMBDA truth :
                 IF Falsey(truth.v)
                 THEN Try(Eval(truth.st, args[2], env, d + 1),
                          LAMBDA other : Ok(other.st, args[3]))
                 ELSE Try(Eval(truth.st, args[3], env, d + 1),
                          LAMBDA other : Ok(other.st, args[2])))

IfUntilLast(st, args, env, d) ==
    IF Len(args) # 3
    THEN RuntimeErr(Enter(st, d), "syntax-error",
                    <<"wrong number of arguments to if", ToLispList(args)>>)
    ELSE Try(Eval(Enter(st, d), args[1], env, d + 1),
             LAMBDA truth : IF Falsey(truth.v) THEN Ok(truth.st, args[3])
                            ELSE Ok(truth.st, args[2]))

\* let_new of an evaluated binding; a procedure takes the binding's name.
LetEvaluated(st, e, name, value) ==
    [st EXCEPT !.fr = LetNew(st.fr, e, name,
                             IF value.t = "proc" THEN WithName(value, name)
                             ELSE value).fr]

\* A let that binds each name in the enclosing frame.
LetBindInEnclosing(st, bindings, i, new_env, d) ==
    IF i > Len(bindings) THEN Ok(st, Nil)
    ELSE Bind(ListToVec(bindings[i]), LAMBDA unwrapped :
         IF ~unwrapped.some
         THEN RuntimeErr(st, "syntax-error",
                         <<"malformed binding", bindings[i]>>)
         ELSE Try(UnpackTwo(st, unwrapped.v), LAMBDA u :
              IF u.v[1].t # "sym"
              THEN RuntimeErr(st, "syntax-error",
                       <<"malformed binding: expected symbol", u.v[1]>>)
              ELSE Try(Eval(st, u.v[2], new_env, d + 1), LAMBDA r :
                   LetBind(LetEvaluated(r.st, r.st.fr[new_env].parent,
                                        u.v[1].s, r.v),
                           bindings, i + 1, new_env, d))))

\* The loop over the bindings of let_until_last: each value is evaluated in
\* the new frame and bound there.
LetBind(st, bindings, i, new_env, d) ==
    IF i > Len(bindings) THEN Ok(st, Nil)
    ELSE Bind(ListToVec(bindings[i]), LAMBDA unwrapped :
         IF ~unwrapped.some
         THEN RuntimeErr(st, "syntax-error",
                         <<"malformed binding", bindings[i]>>)
         ELSE Try(UnpackTwo(st, unwrapped.v), LAMBDA u :
              IF u.v[1].t # "sym"
              THEN RuntimeErr(st, "syntax-error",
                       <<"malformed binding: expected symbol", u.v[1]>>)
              ELSE Try(Eval(st, u.v[2], new_env, d + 1), LAMBDA r :
                   LetBind(LetEvaluated(r.st, new_env, u.v[1].s, r.v),
                           bindings, i + 1, new_env, d))))

LetUntilLast(st, args, env, d) ==
    Bind(FromParent(st.fr, env), LAMBDA new_env :
    Bind(Enter([st EXCEPT !.fr = new_env.fr], d), LAMBDA st1 :
         IF Len(args) < 1
         THEN RuntimeErr(st1, "syntax-error", <<"let must have bindings">>)
         ELSE Bind(ListToVec(args[1]), LAMBDA bindings :
              IF ~bindings.some
              THEN RuntimeErr(st1, "syntax-error",
                              <<"malformed bindings list", args[1]>>)
              ELSE Try(LetBind(st1, bindings.v, 1, new_env.id, d),
                       LAMBDA bound :
                   Try(BeginUntilLast(bound.st, Tail(args), new_env.id, d + 1),
                       LAMBDA last :
                       Ok(last.st, [env |-> new_env.id, last |-> last.v]))))))

\* The last expression a begin, if or let left over: another of the three is
\* taken up in the same loop, anything else is returned with its frame.
HandleLast(r, d) ==
    IF r.v.last.t = "cons" /\ r.v.last.car.t = "sym"
       /\ r.v.last.car.s \in TCO_BUILTINS
    THEN Bind(ListToVec(r.v.last.cdr), LAMBDA vec :
         IF ~vec.some
         THEN RuntimeErr(r.st, "syntax-error",
                         <<"ill-formed-list", r.v.last.cdr>>)
         ELSE SpecialFormTcoUntilLast(r.st, r.v.last.car.s, vec.v,
                                          r.v.env, d))
    ELSE r

SpecialFormTcoUntilLast(st, name, args, env, d) ==
    IF name = "begin"
    THEN Try(BeginUntilLast(Enter(st, d), args, env, d + 1), LAMBDA b :
             HandleLast(Ok(b.st, [env |-> env, last |-> b.v]), d))
    ELSE IF name = "if"
    THEN Try(IfUntilLast(Enter(st, d), args, env, d + 1), LAMBDA b :
             HandleLast(Ok(b.st, [env |-> env, last |-> b.v]), d))
    ELSE IF name = "let"
    THEN Try(LetUntilLast(Enter(st, d), args, env, d + 1), LAMBDA b :
             HandleLast(b, d))
    ELSE Panic(Enter(st, d), "bogus special form")

HandleSpecialFormTco(st, form_name, initial_args, env_input, d) ==
    Try(SpecialFormTcoUntilLast(Enter(st, d), form_name, initial_args,
                                    env_input, d + 1),
        LAMBDA r : Eval(r.st, r.v.last, r.v.env, d + 1))

(************************** lambda.rs **************************************)
ParseLambdaArgsBody(st, args, body, parent) ==
    Try(ParseArglist(st, args), LAMBDA arity :
        Bind(ProcedureNew(st.fr, parent, None,
                          IF Len(body) > 0 /\ body[1].t = "str"
                          THEN Some(body[1].str) ELSE None,
                          <<[arity |-> arity.v, body |-> body]>>),
             LAMBDA p : Ok([st EXCEPT !.fr = p.fr], p.proc)))

ParseLambda(st, input, parent) ==
    IF Len(input) < 1
    THEN RuntimeErr(st, "syntax-error", <<"lambda must at least have arg-list">>)
    ELSE ParseLambdaArgsBody(st, input[1], Tail(input), parent)

ParseArglistBody(st, args) ==
    IF args.t = "cons"
    THEN Try(ParseArglist(st, args.car), LAMBDA arity :
             Bind(ListToVec(args.cdr), LAMBDA body :
                  IF ~body.some
                  THEN RuntimeErr(st, "syntax-error",
                           <<"poorly-formed function body", args.cdr>>)
                  ELSE Ok(st, [arity |-> arity.v, body |-> body.v])))
    ELSE RuntimeErr(st, "syntax-error", <<"invalid lambda expression", args>>)

RECURSIVE ParseClauses(_, _, _, _)
ParseClauses(st, args, i, clauses) ==
    IF i > Len(args) THEN Ok(st, clauses)
    ELSE Try(ParseArglistBody(st, args[i]), LAMBDA c :
             ParseClauses(st, args, i + 1, Append(clauses, c.v)))

ParseMultipleArity(st, args, parent) ==
    IF Len(args) = 0 THEN Panic(st, "index out of bounds")
    ELSE Bind(IF args[1].t = "str" THEN Some(args[1].str) ELSE None,
              LAMBDA docstr :
         Try(ParseClauses(st, args, IF docstr.some THEN 2 ELSE 1, <<>>),
             LAMBDA clauses :
             IF clauses.v = <<>>
             THEN RuntimeErr(st, "syntax-error",
                      <<"(case-lambda) must contain at least one clause">>)
             ELSE Bind(ProcedureNew(st.fr, parent, None, docstr, clauses.v),
                       LAMBDA p : Ok([st EXCEPT !.fr = p.fr], p.proc))))

LambdaApplyUntilLast(st, func, arg, d) ==
    Try(StartProcedure(Enter(st, d), func, arg), LAMBDA s :
        SpecialFormTcoUntilLast(s.st, "begin", s.v.body, s.v.env, d + 1))

LambdaApplyUntilLastFrom(st, func, arg, env, d) ==
    Try(StartProcedureFrom(Enter(st, d), func, arg, env), LAMBDA s :
        SpecialFormTcoUntilLast(s.st, "begin", s.v.body, s.v.env, d + 1))

\* An unwrap that finds the frame uniquely owned at every tail call.
TryUnwrapUnique(st, env) == TRUE

\* Rc::try_unwrap(env) in lambda_apply: env_borrow, the clone made when the
\* last expression was split, is still alive, so the frame has a second
\* owner and the unwrap fails.
TryUnwrap(st, env) == FALSE

\* The tail call of lambda_apply: the arguments are evaluated in the current
\* frame and the procedure is started again, in the frame started: the
\* unwrapped one, or the one start_procedure allocates.  The event keeps
\* that frame as it is when the body's last expression is reached.
TailCall(st, func, env, tl, d) ==
    Try(MapEval(st, tl, env, d + 1), LAMBDA args :
    Try(IF TryUnwrap(args.st, env)
        THEN LambdaApplyUntilLastFrom(args.st, func, args.v, env, d + 1)
        ELSE LambdaApplyUntilLast(args.st, func, args.v, d + 1),
        LAMBDA next :
        LambdaApplyLoop(Log(next.st, [ev |-> "tail_call", id |-> func.id,
                                      arg |-> args.v, from |-> env,
                                      started |->
                                          IF TryUnwrap(args.st, env) THEN env
                                          ELSE Len(args.st.fr) + 1,
                                      frame |->
                                          next.st.fr[
                                            IF TryUnwrap(args.st, env) THEN env
                                            ELSE Len(args.st.fr) + 1],
                                      env |-> next.v.env, d |-> d]),
                        func, next.v.env, next.v.last, d)))

\* A loop that evaluates every last expression as an ordinary call.
LambdaApplyLoopNoTco(st, func, env, last_to_eval, d) ==
    Eval(st, last_to_eval, env, d + 1)

\* The loop of lambda_apply: a last expression that calls the procedure
\* itself restarts the procedure; anything else is evaluated.
LambdaApplyLoop(st, func, env, last_to_eval, d) ==
    IF last_to_eval.t = "cons" /\ last_to_eval.car.t = "sym"
    THEN Bind(EnvLookup(st.fr, env, last_to_eval.car.s),
              LAMBDA lookup_attempt :
         Bind(Enter(st, d + LookupCalls(st.fr, env, last_to_eval.car.s)),
              LAMBDA st1 :
              IF lookup_attempt.some /\ lookup_attempt.v.t = "proc"
                 /\ lookup_attempt.v.id = func.id
              THEN TailCall(st1, func, env, last_to_eval.cdr, d)
              ELSE Eval(st1, last_to_eval, env, d + 1)))
    ELSE Eval(st, last_to_eval, env, d + 1)

\* The outcome r of lambda_apply, recorded as the procedure's return.
Returned(r, func, d) ==
    [r EXCEPT !.st = Log(@, [ev |-> "lambda_ret", id |-> func.id,
                             k |-> r.k, v |-> r.v, d |-> d])]

LambdaApply(st, func, arg, d) ==
    Returned(Try(LambdaApplyUntilLast(
                     Log(Enter(st, d), [ev |-> "lambda_apply",
                                        id |-> func.id, arg |-> arg,
                                        d |-> d]),
                     func, arg, d + 1),
                 LAMBDA first : LambdaApplyLoop(first.st, func, first.v.env,
                                                first.v.last, d)),
             func, d)

(************************** macros.rs **************************************)
\* An expansion that hands the transformer's error on as it is.
MacroOutcomeUnwrapped(r, macro_name) ==
    IF r.k = "ok" THEN Ok(r.st, Some(r.v)) ELSE r

\* macro_error!(cause err; ...) around the outcome of the transformer
MacroOutcome(r, macro_name) ==
    IF r.k = "ok" THEN Ok(r.st, Some(r.v))
    ELSE IF r.k = "err"
    THEN Err(r.st, RuntimeErrorNew("macro-expansion-error",
                       Some(Str(<<"error in expansion of macro", macro_name>>)),
                       Some(r.v), None))
    ELSE r

\* An expansion that evaluates the argument forms before the transformer
\* sees them.
TryMacroExpandEvaluated(st, macro_name, args, env, d) ==
    Bind(LookupMacro(st.fr, env, macro_name), LAMBDA handler :
         IF handler.some
         THEN Try(MapEval(Enter(st, d), args, env, d + 1), LAMBDA a :
                  MacroOutcome(LambdaApply(a.st, handler.v, a.v, d + 1),
                               macro_name))
         ELSE Ok(st, None))

TryMacroExpand(st, macro_name, args, env, d) ==
    Bind(LookupMacro(st.fr, env, macro_name), LAMBDA handler :
         IF handler.some
         THEN MacroOutcome(LambdaApply(Enter(st, d), handler.v, args,
                                           d + 1),
                           macro_name)
         ELSE Ok(st, None))

(************************** special_form_handlers.rs ***********************)
\* An and that goes on after a falsey value.
AndLoopNoStop(st, args, i, val, env, d) ==
    IF i > Len(args) THEN Ok(st, val)
    ELSE Try(Eval(st, args[i], env, d + 1), LAMBDA r :
             AndLoop(r.st, args, i + 1, r.v, env, d))

AndLoop(st, args, i, val, env, d) ==
    IF i > Len(args) THEN Ok(st, val)
    ELSE Try(Eval(st, args[i], env, d + 1), LAMBDA r :
             IF Falsey(r.v) THEN r
             ELSE AndLoop(r.st, args, i + 1, r.v, env, d))

AndHandler(st, args, env, d) ==
    AndLoop(Enter(st, d), args, 1, Sym("true"), env, d)

OrLoop(st, args, i, val, env, d) ==
    IF i > Len(args) THEN Ok(st, val)
    ELSE Try(Eval(st, args[i], env, d + 1), LAMBDA r :
             IF ~Falsey(r.v) THEN r
             ELSE OrLoop(r.st, args, i + 1, r.v, env, d))

OrHandler(st, args, env, d) ==
    OrLoop(Enter(st, d), args, 1, Sym("false"), env, d)

BeginHandler(st, args, env, d) ==
    HandleSpecialFormTco(Enter(st, d), "begin", args, env, d + 1)

\* A catch-error that hands the outcome of its body on as it is.
CaughtNothing(r) == r

\* Err(err) => Ok(err.into_lisp_obj())
Caught(r) == IF r.k = "err" THEN Ok(r.st, LError(r.v)) ELSE r

CatchErrorHandler(st, args, env, d) ==
    Caught(BeginHandler(Enter(st, d), args, env, d + 1))

\* The outcome of a definition that put its value in place of prior: the
\* flag was looked up in the state before the insertion.
Redefined(before, st, prior, allow_red, what, name) ==
    IF ~allow_red.some THEN Panic(before, "cannot delete *allow-redefine*")
    ELSE IF prior.some /\ Falsey(allow_red.v)
         THEN RuntimeErr(st, "redefine-error", <<what, name>>)
         ELSE Ok(st, Sym(name))

\* A definition step that lets every redefinition through.
DefineBindUngated(st, top_level, name, value) ==
    Bind(LetNew(st.fr, top_level, name, value), LAMBDA b :
         Redefined(st, [st EXCEPT !.fr = b.fr], None,
                   EnvLookup(st.fr, top_level, "*allow-redefine*"),
                   "symbol is already bound", name))

\* The end of define_handler: the flag is read from the top-level frame, the
\* value is inserted there, and a replaced binding is an error when the
\* flag is falsey.
DefineBind(st, top_level, name, value) ==
    Bind(LetNew(st.fr, top_level, name, value), LAMBDA b :
         Redefined(st, [st EXCEPT !.fr = b.fr], b.res,
                   EnvLookup(st.fr, top_level, "*allow-redefine*"),
                   "symbol is already bound", name))

\* The name and value of a define: (define name expr) or
\* (define (name . args) body...).
DefineNameValue(st, args, env, d) ==
    IF args[1].t = "sym" /\ Len(args) = 2
    THEN Try(Eval(st, args[2], env, d + 1), LAMBDA r :
             Ok(r.st, [name |-> args[1].s,
                       value |-> IF r.v.t = "proc"
                                 THEN WithName(r.v, args[1].s) ELSE r.v]))
    ELSE IF args[1].t = "cons"
    THEN IF args[1].car.t = "sym"
         THEN Try(ParseLambdaArgsBody(st, args[1].cdr, Tail(args), env),
                  LAMBDA f :
                  Ok(f.st, [name |-> args[1].car.s,
                            value |-> WithName(f.v, args[1].car.s)]))
         ELSE RuntimeErr(st, "syntax-error",
                  <<"invalid argumetnts to define", ToLispList(args)>>)
    ELSE RuntimeErr(st, "syntax-error",
             <<"define must have symbol name to define", args[1]>>)

DefineHandler(st, args, env, d) ==
    IF Len(args) = 0 THEN Panic(Enter(st, d), "index out of bounds")
    ELSE IF Len(args) < 2
    THEN RuntimeErr(Enter(st, d), "syntax-error",
                    <<"Not enough arguments to define", args[1]>>)
    ELSE Try(DefineNameValue(Enter(st, d), args, env, d), LAMBDA nv :
             DefineBind(nv.st, GetTopLevel(nv.st.fr, env), nv.v.name,
                        nv.v.value))

DefineMacroHandler(st, args, env, d) ==
    IF Len(args) < 2
    THEN RuntimeErr(Enter(st, d), "syntax-error",
             <<"Not enough arguments to define-macro", ToLispList(args)>>)
    ELSE IF args[1].t = "cons" /\ args[1].car.t = "sym"
    THEN Try(ParseLambdaArgsBody(Enter(st, d), args[1].cdr, Tail(args), env),
             LAMBDA f :
             Bind(LetMacro(f.st.fr, GetTopLevel(f.st.fr, env), args[1].car.s,
                           WithName(f.v, args[1].car.s)),
                  LAMBDA b :
                  Redefined(f.st, [f.st EXCEPT !.fr = b.fr], b.res,
                            EnvLookup(f.st.fr, env, "*allow-redefine*"),
                            "macro is already bound", args[1].car.s)))
    ELSE RuntimeErr(Enter(st, d), "syntax-error",
                    <<"invalid macro definition", ToLispList(args)>>)

QuasiquoteHelper(st, obj, env, d) ==
    IF obj.t = "cons"
    THEN IF obj.car.t = "sym" /\ obj.cdr.t = "cons"
         THEN IF obj.car.s = "unquote" /\ obj.cdr.cdr.t = "nil"
              THEN Eval(Enter(st, d), obj.cdr.car, env, d + 1)
              ELSE RuntimeErr(Enter(st, d), "syntax-error",
                              <<"quasiquote: invalid unquote", obj.cdr>>)
         ELSE IF obj.car.t = "sym"
         THEN Try(QuasiquoteHelper(Enter(st, d), obj.cdr, env, d + 1),
                  LAMBDA tail : Ok(tail.st, Cons(obj.car, tail.v)))
         ELSE Try(QuasiquoteHelper(Enter(st, d), obj.car, env, d + 1),
                  LAMBDA head :
              Try(QuasiquoteHelper(head.st, obj.cdr, env, d + 1),
                  LAMBDA next : Ok(next.st, Cons(head.v, next.v))))
    ELSE Ok(Enter(st, d), obj)

QuasiquoteHandler(st, args, env, d) ==
    IF Len(args) # 1
    THEN RuntimeErr(Enter(st, d), "syntax-error",
             <<"quasiquote must have exactly 1 argument", ToLispList(args)>>)
    ELSE QuasiquoteHelper(Enter(st, d), args[1], env, d + 1)

QuoteHandler(st, args, env, d) ==
    IF Len(args) = 1 THEN Ok(Enter(st, d), args[1])
    ELSE RuntimeErr(Enter(st, d), "syntax-error",
             <<"wrong number of arguments to quote", ToLispList(args)>>)

\* The end of set_handler: swap_values from the current frame.
SetSwap(st, env, name, new_value) ==
    Bind(SwapValues(st.fr, env, name, new_value), LAMBDA s :
         IF s.res.some THEN Ok([st EXCEPT !.fr = s.fr], s.res.v)
         ELSE RuntimeErr(st, "bound-error",
                         <<"cannot set! unbound symbol", name>>))

SetHandler(st, args, env, d) ==
    IF Len(args) = 0
    THEN RuntimeErr(Enter(st, d), "arity-error", <<"Too few args">>)
    ELSE IF args[1].t # "sym"
    THEN RuntimeErr(Enter(st, d), "type-error", <<"expected symbol", args[1]>>)
    ELSE Try(UnpackTwo(Enter(st, d), args), LAMBDA u :
         Try(Eval(u.st, args[2], env, d + 1), LAMBDA new_value :
             SetSwap(new_value.st, env, args[1].s, new_value.v)))

LambdaHandler(st, args, env, d) == ParseLambda(Enter(st, d), args, env)

CaseLambdaHandler(st, args, env, d) ==
    ParseMultipleArity(Enter(st, d), args, env)

IfHandler(st, args, env, d) ==
    HandleSpecialFormTco(Enter(st, d), "if", args, env, d + 1)

LetHandler(st, args, env, d) ==
    HandleSpecialFormTco(Enter(st, d), "let", args, env, d + 1)

\* get_handler(s) applied to the argument vector
Handler(s, st, args, env, d) ==
    CASE s = "and" -> AndHandler(st, args, env, d)
      [] s = "begin" -> BeginHandler(st, args, env, d)
      [] s = "case-lambda" -> CaseLambdaHandler(st, args, env, d)
      [] s = "catch-error" -> CatchErrorHandler(st, args, env, d)
      [] s = "define" -> DefineHandler(st, args, env, d)
      [] s = "define-macro" -> DefineMacroHandler(st, args, env, d)
      [] s = "if" -> IfHandler(st, args, env, d)
      [] s = "lambda" -> LambdaHandler(st, args, env, d)
      [] s = "let" -> LetHandler(st, args, env, d)
      [] s = "or" -> OrHandler(st, args, env, d)
      [] s = "quote" -> QuoteHandler(st, args, env, d)
      [] s = "quasiquote" -> QuasiquoteHandler(st, args, env, d)
      [] s = "set!" -> SetHandler(st, args, env, d)

(************************** builtins/mod.rs ********************************)
\* The i64 operation whose exact result is q * 2^62 + n, fits telling
\* whether that is an i64: an overflow panics under overflow checks and
\* wraps without them.
CheckedI64(st, fits, q, n, what) ==
    IF fits THEN Ok(st, I64(q, n))
    ELSE IF st.overflow_checks
         THEN Panic(st, <<"attempt to", what, "with overflow">>)
         ELSE Ok(st, WrapI64(q, n))

IsNumber(obj) == obj.t \in {"int", "float"}

\* The last three arms of add_two, div_two, mult_two and sub_two.
ExpectingNumber(st, a, b) ==
    IF IsNumber(a)
    THEN RuntimeErr(st, "type-error", <<"expecting number", b>>)
    ELSE RuntimeErr(st, "type-error", <<"expecting number", a>>)

add_two(st, a, b) ==
    IF a.t = "int" /\ b.t = "int"
    THEN CheckedI64(st, FitsI64(a.q + b.q, a.n + b.n),
                    a.q + b.q, a.n + b.n, "add")
    ELSE IF IsNumber(a) /\ IsNumber(b) THEN Ok(st, FloatV("+", a, b))
         ELSE ExpectingNumber(st, a, b)

div_two(st, a, b) ==
    IF IsNumber(a) /\ IsNumber(b) THEN Ok(st, FloatV("/", a, b))
    ELSE ExpectingNumber(st, a, b)

\* (aq * 2^62 + an) * (bq * 2^62 + bn)
\*     = aq * bq * 2^124 + (aq * bn + bq * an) * 2^62 + an * bn.
mult_two(st, a, b) ==
    IF a.t = "int" /\ b.t = "int"
    THEN CheckedI64(st,
                    /\ a.q * b.q = 0
                    /\ FitsI64(a.q * b.n + b.q * a.n, a.n * b.n),
                    a.q * b.n + b.q * a.n, a.n * b.n, "multiply")
    ELSE IF IsNumber(a) /\ IsNumber(b) THEN Ok(st, FloatV("*", a, b))
         ELSE ExpectingNumber(st, a, b)

sub_two(st, a, b) ==
    IF a.t = "int" /\ b.t = "int"
    THEN CheckedI64(st, FitsI64(a.q - b.q, a.n - b.n),
                    a.q - b.q, a.n - b.n, "subtract")
    ELSE IF IsNumber(a) /\ IsNumber(b) THEN Ok(st, FloatV("-", a, b))
         ELSE ExpectingNumber(st, a, b)

RECURSIVE AddFrom(_, _, _, _)
AddFrom(st, out, args, i) ==
    IF i > Len(args) THEN Ok(st, out)
    ELSE Try(add_two(st, out, args[i]),
             LAMBDA r : AddFrom(st, r.v, args, i + 1))

RECURSIVE DivFrom(_, _, _, _)
DivFrom(st, out, args, i) ==
    IF i > Len(args) THEN Ok(st, out)
    ELSE Try(div_two(st, out, args[i]),
             LAMBDA r : DivFrom(st, r.v, args, i + 1))

RECURSIVE ProductFrom(_, _, _, _)
ProductFrom(st, out, args, i) ==
    IF i > Len(args) THEN Ok(st, out)
    ELSE Try(mult_two(st, out, args[i]),
             LAMBDA r : ProductFrom(st, r.v, args, i + 1))

RECURSIVE SubFrom(_, _, _, _)
SubFrom(st, out, args, i) ==
    IF i > Len(args) THEN Ok(st, out)
    ELSE Try(sub_two(st, out, args[i]),
             LAMBDA r : SubFrom(st, r.v, args, i + 1))

NativeAdd(st, args) == AddFrom(st, IntV(0), args, 1)

NativeDivision(st, args) ==
    IF Len(args) = 0
    THEN RuntimeErr(st, "arity-error", <<"(/) must have at least 1 argument">>)
    ELSE IF Len(args) = 1 THEN div_two(st, IntV(1), args[1])
         ELSE DivFrom(st, args[1], args, 2)

NativeProduct(st, args) == ProductFrom(st, IntV(1), args, 1)

\* A sub that folds from 0 whatever the number of arguments.
NativeSubFromZero(st, args) ==
    IF Len(args) = 0
    THEN RuntimeErr(st, "arity-error", <<"(-) must have at least one argument">>)
    ELSE SubFrom(st, IntV(0), args, 1)

NativeSub(st, args) ==
    IF Len(args) = 0
    THEN RuntimeErr(st, "arity-error", <<"(-) must have at least one argument">>)
    ELSE IF Len(args) = 1 THEN sub_two(st, IntV(0), args[1])
         ELSE SubFrom(st, args[1], args, 2)

\* A car that reports a wrong argument count under the kind of a wrong type.
NativeCarOneKind(st, args) ==
    IF Len(args) # 1
    THEN RuntimeErr(st, "type-error",
                    <<"wrong number of arguments to car", ToLispList(args)>>)
    ELSE IF args[1].t = "cons" THEN Ok(st, args[1].car)
         ELSE RuntimeErr(st, "type-error", <<"car: expected cons", args[1]>>)

NativeCar(st, args) ==
    IF Len(args) # 1
    THEN RuntimeErr(st, "arity-error",
                    <<"wrong number of arguments to car", ToLispList(args)>>)
    ELSE IF args[1].t = "cons" THEN Ok(st, args[1].car)
         ELSE RuntimeErr(st, "type-error", <<"car: expected cons", args[1]>>)

NativeCdr(st, args) ==
    IF Len(args) # 1
    THEN RuntimeErr(st, "arity-error",
                    <<"wrong number of arguments to car", ToLispList(args)>>)
    ELSE IF args[1].t = "cons" THEN Ok(st, args[1].cdr)
         ELSE RuntimeErr(st, "type-error", <<"cdr: expected cons", args[1]>>)

NativeCons(st, args) ==
    Try(UnpackTwo(st, args), LAMBDA u : Ok(st, Cons(args[1], args[2])))

NativeEval(st, args, env, d) ==
    IF Len(args) # 1
    THEN RuntimeErr(st, "syntax-error", <<"eval expects 1 argument", Len(args)>>)
    ELSE Eval(st, args[1], env, d + 1)

NativeApply(st, args, env, d) ==
    Try(UnpackTwo(st, args),
        LAMBDA u : Apply(st, args[1], args[2], env, d + 1))

BUILTIN_FUNCS == <<"+", "-", "*", "/", "apply", "eval", "car", "cdr", "cons">>

NativeCall(name, st, args, env, d) ==
    CASE name = "+" -> NativeAdd(Enter(st, d), args)
      [] name = "-" -> NativeSub(Enter(st, d), args)
      [] name = "*" -> NativeProduct(Enter(st, d), args)
      [] name = "/" -> NativeDivision(Enter(st, d), args)
      [] name = "apply" -> NativeApply(Enter(st, d), args, env, d)
      [] name = "eval" -> NativeEval(Enter(st, d), args, env, d)
      [] name = "car" -> NativeCar(Enter(st, d), args)
      [] name = "cdr" -> NativeCdr(Enter(st, d), args)
      [] name = "cons" -> NativeCons(Enter(st, d), args)

builtin_vals ==
    [name \in {"true", "false", "nil", "*allow-redefine*"} |->
        CASE name = "true" -> Sym("true")
          [] name = "false" -> Sym("false")
          [] name = "nil" -> Nil
          [] name = "*allow-redefine*" -> Sym("false")]

(************************** evaluator/mod.rs *******************************)
default_environment ==
    [EnvironmentNew EXCEPT
        !.bindings =
            [name \in {BUILTIN_FUNCS[i] : i \in 1..Len(BUILTIN_FUNCS)}
                      \cup DOMAIN builtin_vals |->
                IF name \in DOMAIN builtin_vals THEN builtin_vals[name]
                ELSE Native(name)],
        !.special_chars =
            Some([c \in {"quote", "backslash", "backquote", "comma"} |->
                     Native("char-handler")])]

MapEval(st, ls, env, d) ==
    IF ls.t = "nil" THEN Ok(Enter(st, d), Nil)
    ELSE IF ls.t = "cons"
    THEN Try(Eval(Enter(st, d), ls.car, env, d + 1), LAMBDA this :
         Try(MapEval(this.st, ls.cdr, env, d + 1), LAMBDA rest :
             Ok(rest.st, Cons(this.v, rest.v))))
    ELSE RuntimeErr(Enter(st, d), "syntax-error", <<"not a proper list", ls>>)

\* An apply that puts the callee in the source of whatever error it sees.
SourcedOverwriting(r, procedure) ==
    IF r.k # "err" THEN r ELSE Err(r.st, WithSource(r.v, procedure))

\* The error of a native function takes the function as its source, or is
\* wrapped when it has a source already; the error of a procedure is
\* wrapped.
Sourced(r, procedure) ==
    IF r.k # "err" THEN r
    ELSE Err(r.st, IF procedure.t = "proc" \/ r.v.source.some
                   THEN NewFrom(r.v, procedure)
                   ELSE WithSource(r.v, procedure))

Apply(st, procedure, arg, env, d) ==
    IF procedure.t = "native"
    THEN Bind(ListToVec(arg), LAMBDA args :
         IF ~args.some
         THEN RuntimeErr(Enter(st, d), "syntax-error",
                         <<"(apply) ill-formed argument list", arg>>)
         ELSE Sourced(NativeCall(procedure.fname, Enter(st, d), args.v,
                                     env, d + 1),
                      procedure))
    ELSE IF procedure.t = "proc"
    THEN Sourced(LambdaApply(Enter(st, d), procedure, arg, d + 1),
                 procedure)
    ELSE RuntimeErr(Enter(st, d), "type-error",
                    <<"expecting procedure", procedure>>)

\* The call at the end of eval: the head and the arguments are evaluated and
\* the function is applied.
EvalCall(st, form, env, d) ==
    Try(Eval(st, form.car, env, d + 1), LAMBDA func :
    Try(MapEval(func.st, form.cdr, env, d + 1), LAMBDA args :
        Apply(args.st, func.v, args.v, env, d + 1)))

\* A form that is a cons: special form, macro call or call.
EvalCons(st, form, env, d) ==
    IF form.car.t = "sym" /\ form.car.s \in HANDLERS
    THEN Bind(ListToVec(form.cdr), LAMBDA tl_vec :
         IF ~tl_vec.some
         THEN RuntimeErr(st, "syntax-error",
                  <<"invalid syntax (ill-formed arg list)", form.car.s,
                    form.cdr>>)
         ELSE Handler(form.car.s, st, tl_vec.v, env, d + 1))
    ELSE IF form.car.t = "sym"
    THEN Try(TryMacroExpand(st, form.car.s, form.cdr, env, d + 1),
             LAMBDA expanded :
             IF expanded.v.some
             THEN Eval(expanded.st, expanded.v.v, env, d)
             ELSE EvalCall(expanded.st, form, env, d))
    ELSE EvalCall(st, form, env, d)

\* A form that is a symbol.
EvalSymbol(st, name, env, d) ==
    Bind(EnvLookup(st.fr, env, name), LAMBDA val :
         IF val.some
         THEN Ok(Enter(st, d + LookupCalls(st.fr, env, name)), val.v)
         ELSE RuntimeErr(Enter(st, d + LookupCalls(st.fr, env, name)),
                         "bound-error", <<"symbol is not bound", name>>))

\* One turn of the loop of eval; a macro expansion takes the next turn.
EvalForm(st, form, env, d) ==
    IF IsSelfEvaluating(form) THEN Ok(st, form)
    ELSE IF form.t = "sym" THEN EvalSymbol(st, form.s, env, d)
    ELSE IF form.t = "cons" THEN EvalCons(st, form, env, d)
    ELSE RuntimeErr(st, "eval-error", <<"unable to evaluate", form>>)

Eval(st, form, env, d) ==
    EvalForm(Log(Enter(st, d), [ev |-> "eval", form |-> form, env |-> env,
                                d |-> d]),
             form, env, d)

(***************************************************************************)
(* The read-eval loop (run/mod.rs): Evaluator::new builds the default      *)
(* environment as the top-level frame, and each step evaluates one form    *)
(* there.  A program is a sequence of forms; the loop evaluates any of     *)
(* them, in any order, MaxForms times.                                     *)
(***************************************************************************)
EvalInit ==
    /\ VecIdle
    /\ ErrIdle
    /\ frames = <<default_environment>>
    /\ envOp = [op |-> "none"]
    /\ procLog = <<>>
    /\ EvalIdle
    /\ ParseIdle

DoEval(forms) ==
    /\ evalCount < MaxForms
    /\ \E i \in 1..Len(forms), overflow_checks \in BOOLEAN :
         LET r == Eval(NewStateBuilt(frames, overflow_checks), forms[i], 1, 1)
         IN /\ frames' = r.st.fr
            /\ framesPrev' = frames
            /\ evalOp' = [op |-> "eval", form |-> forms[i], k |-> r.k,
                          v |-> r.v, tr |-> r.st.tr, maxd |-> r.st.maxd]
            /\ evalCount' = evalCount + 1
    /\ UNCHANGED exceptEval

\* Shorthands for writing forms.
List(objs) == ToLispList(objs)
Quote(obj) == List(<<Sym("quote"), obj>>)
Let1(name, value, body) ==
    List(<<Sym("let"), List(<<List(<<Sym(name), value>>)>>), body>>)
Define(name, value) == List(<<Sym("define"), Sym(name), value>>)

(***************************************************************************)
(* The let specification: programs of let forms around a top-level x.      *)
(***************************************************************************)
LetValues == {5, 6}

LetShadow(v) == Let1("x", IntV(v), Sym("x"))
LetNested(v, w) == Let1("x", IntV(v), Let1("x", IntV(w), Sym("x")))
LetAfter(v, w) ==
    Let1("x", IntV(v),
         List(<<Sym("+"), Let1("x", IntV(w), Sym("x")), Sym("x")>>))

LetForms ==
    <<Define("x", IntV(1)),
      Sym("x"),
      LetShadow(5), LetShadow(6),
      LetNested(5, 6),
      LetAfter(5, 6),
      Let1("x", IntV(5), List(<<Sym("car"), Sym("x")>>)),
      Define("g", Let1("x", IntV(7),
                       List(<<Sym("lambda"), Nil, LetShadow(6)>>))),
      List(<<Sym("g")>>)>>

LetNext == DoEval(LetForms)

SpecLet == EvalInit /\ [][LetNext]_vars

\* The forms whose evaluation writes a binding other than by let.
IsMutation(form) ==
    form.t = "cons" /\ form.car.t = "sym"
    /\ form.car.s \in {"define", "define-macro", "set!"}

IsLet(form) == form.t = "cons" /\ form.car = Sym("let")

\* C3: a let binds its names only in a newly created child frame.  When an
\* evaluation meets no define, set! or define-macro, every frame that
\* existed before it keeps its bindings, whether the evaluation ends with a
\* value or an error; inside the body the let-bound name shadows the same
\* name of every enclosing frame, and once an inner let has completed the
\* enclosing name yields its old value again.
LetBindsInNewFrame ==
    evalOp.op = "eval" =>
        /\ (\A i \in 1..Len(evalOp.tr) :
                evalOp.tr[i].ev = "eval" => ~IsMutation(evalOp.tr[i].form))
           => /\ Len(frames) >= Len(framesPrev)
              /\ \A e \in 1..Len(framesPrev) :
                    /\ frames[e].bindings = framesPrev[e].bindings
                    /\ frames[e].parent = framesPrev[e].parent
        /\ \A v \in LetValues, w \in LetValues :
              /\ evalOp.form = LetShadow(v)
                    => evalOp.k = "ok" /\ evalOp.v = IntV(v)
              /\ evalOp.form = LetNested(v, w)
                    => evalOp.k = "ok" /\ evalOp.v = IntV(w)
              /\ evalOp.form = LetAfter(v, w)
                    => evalOp.k = "ok" /\ evalOp.v = IntV(v + w)

\* x is bound at top level, a let that rebinds x has just been evaluated,
\* and x at top level is still what it was.
LetWitness ==
    /\ evalOp.op = "eval"
    /\ evalOp.form = LetAfter(5, 6)
    /\ "x" \in DOMAIN framesPrev[1].bindings
    /\ framesPrev[1].bindings["x"] = IntV(1)
    /\ frames[1].bindings["x"] = IntV(1)
    /\ evalOp.v = IntV(11)
    /\ Len(frames) = Len(framesPrev) + 2

(***************************************************************************)
(* The definition specification: programs that define, redefine and set!   *)
(* x, y and *allow-redefine* at top level, inside a let and inside the     *)
(* body of a closure over a let frame.                                     *)
(***************************************************************************)
Set(name, value) == List(<<Sym("set!"), Sym(name), value>>)
Lambda0(body) == List(<<Sym("lambda"), Nil, body>>)

DefineValues == {1, 2}

DefineInLet(v, w) == Let1("x", IntV(v), Define("x", IntV(w)))
DefineUnderFlag(w) == Let1("*allow-redefine*", Sym("true"), Define("x", IntV(w)))
SetInLet(v, w) == Let1("x", IntV(v), Set("x", IntV(w)))
SetFromLet(w) == Let1("y", IntV(3), Set("x", IntV(w)))
MacroInLet ==
    Let1("y", IntV(1),
         List(<<Sym("define-macro"), List(<<Sym("m"), Sym("a")>>), Sym("a")>>))
Counter ==
    Define("g", Let1("y", IntV(1),
                     Lambda0(Set("y", List(<<Sym("+"), Sym("y"), IntV(1)>>)))))
Definer == Define("h", Let1("y", IntV(1), Lambda0(Define("y", IntV(9)))))

DefineForms ==
    <<Define("x", IntV(1)), Define("x", IntV(2)),
      Sym("x"),
      Set("*allow-redefine*", Sym("true")),
      DefineInLet(5, 7),
      DefineUnderFlag(8),
      SetInLet(5, 6),
      SetFromLet(9),
      MacroInLet,
      Counter, List(<<Sym("g")>>),
      Definer, List(<<Sym("h")>>)>>

DefineNext == DoEval(DefineForms)

SpecDefine == EvalInit /\ [][DefineNext]_vars

IsSet(form, name) ==
    /\ form.t = "cons" /\ form.car = Sym("set!")
    /\ form.cdr.t = "cons" /\ form.cdr.car = Sym(name)

\* The frame swap_values reaches from e: the nearest one that binds name.
RECURSIVE NearestBinder(_, _, _)
NearestBinder(fr, e, name) ==
    IF name \in DOMAIN fr[e].bindings \/ fr[e].parent = 0 THEN e
    ELSE NearestBinder(fr, fr[e].parent, name)

\* The frames the evaluation created.
NewFrames == (Len(framesPrev) + 1)..Len(frames)

\* C4 as stated: define, set! and define-macro always mutate the top-level
\* frame, so an evaluation leaves the bindings and the macro table of every
\* non-root frame that existed before it unchanged.
MutationOnlyAtTopLevel ==
    evalOp.op = "eval" =>
        \A e \in 2..Len(framesPrev) :
            /\ frames[e].bindings = framesPrev[e].bindings
            /\ frames[e].macros = framesPrev[e].macros

\* C4 amended: define and define-macro always write the top-level frame and
\* never an intermediate one, also from a nested scope and when the name is
\* bound in an intermediate frame; set! replaces the binding in the nearest
\* frame that binds the name, walking outward from the current frame, and
\* changes no other frame.  So a non-root frame never gains or loses a name
\* or a macro through them, the value of a name in it changes only by a set!
\* of that name that reaches it, a define inside a let leaves the let's
\* binding alone and writes the root, and a set! of a let-bound name leaves
\* the root alone.
MutationTargets ==
    evalOp.op = "eval" =>
        /\ \A e \in 2..Len(framesPrev) :
              /\ DOMAIN frames[e].bindings = DOMAIN framesPrev[e].bindings
              /\ frames[e].macros = framesPrev[e].macros
              /\ frames[e].parent = framesPrev[e].parent
              /\ \A n \in DOMAIN framesPrev[e].bindings :
                    frames[e].bindings[n] # framesPrev[e].bindings[n]
                    => \E i \in 1..Len(evalOp.tr) :
                          /\ evalOp.tr[i].ev = "eval"
                          /\ IsSet(evalOp.tr[i].form, n)
                          /\ NearestBinder(frames, evalOp.tr[i].env, n) = e
        /\ \A e \in NewFrames : frames[e].macros = None
        /\ (\A i \in 1..Len(evalOp.tr) :
                evalOp.tr[i].ev = "eval"
                => ~IsSet(evalOp.tr[i].form, "x")
                   /\ ~IsSet(evalOp.tr[i].form, "y")
                   /\ ~IsSet(evalOp.tr[i].form, "*allow-redefine*"))
           => \A e \in 2..Len(framesPrev) :
                 frames[e].bindings = framesPrev[e].bindings
        /\ evalOp.form = DefineInLet(5, 7)
           => /\ frames[Len(framesPrev) + 1].bindings = MapPut(<<>>, "x", IntV(5))
              /\ frames[1].bindings["x"] = IntV(7)
        /\ evalOp.form = SetInLet(5, 6)
           => /\ frames[Len(framesPrev) + 1].bindings = MapPut(<<>>, "x", IntV(6))
              /\ frames[1].bindings = framesPrev[1].bindings
        /\ evalOp.form = SetFromLet(9)
           => /\ frames[Len(framesPrev) + 1].bindings = MapPut(<<>>, "y", IntV(3))
              /\ IF "x" \in DOMAIN framesPrev[1].bindings
                 THEN evalOp.k = "ok" /\ frames[1].bindings["x"] = IntV(9)
                 ELSE /\ evalOp.k = "err"
                      /\ evalOp.v.errname = "bound-error"
                      /\ frames[1].bindings = framesPrev[1].bindings
        /\ evalOp.form = MacroInLet /\ evalOp.k = "ok"
           => /\ frames[1].macros.some
              /\ "m" \in DOMAIN frames[1].macros.v
              /\ frames[Len(framesPrev) + 1].bindings = MapPut(<<>>, "y", IntV(1))
        /\ evalOp.form = List(<<Sym("h")>>) /\ evalOp.k # "panic"
              /\ "h" \in DOMAIN framesPrev[1].bindings
           => frames[1].bindings["y"] = IntV(9)

\* x is not bound at top level, a let that binds x has evaluated
\* (define x 7) in its body, and the let's frame still holds 5 while the
\* top-level frame holds 7.
MutationWitness ==
    /\ evalOp.op = "eval"
    /\ evalOp.form = DefineInLet(5, 7)
    /\ "x" \notin DOMAIN framesPrev[1].bindings
    /\ evalOp.k = "ok"
    /\ frames[1].bindings["x"] = IntV(7)
    /\ frames[Len(framesPrev) + 1].bindings["x"] = IntV(5)

\* C5: redefinition is gated by *allow-redefine*.  A define of x when x is
\* bound in the top-level frame and the top-level *allow-redefine* is falsey
\* yields a redefine-error; when the flag is truthy, or x is not bound at
\* top level, the define succeeds and a lookup of x from the top level
\* yields the defined value; a later evaluation of x yields the value the
\* top level holds.  The flag that counts is the top-level one, also for a
\* define inside a let that binds x or *allow-redefine* itself.
RedefineGated ==
    evalOp.op = "eval" =>
        /\ \A w \in DefineValues \cup {7, 8} :
              evalOp.form \in {Define("x", IntV(w)), DefineInLet(5, w),
                               DefineUnderFlag(w)}
              => IF "x" \in DOMAIN framesPrev[1].bindings
                    /\ Falsey(framesPrev[1].bindings["*allow-redefine*"])
                 THEN /\ evalOp.k = "err"
                      /\ evalOp.v.errname = "redefine-error"
                 ELSE /\ evalOp.k = "ok"
                      /\ evalOp.v = Sym("x")
                      /\ EnvLookup(frames, 1, "x") = Some(IntV(w))
        /\ evalOp.form = Sym("x") /\ "x" \in DOMAIN framesPrev[1].bindings
           => evalOp.k = "ok" /\ evalOp.v = framesPrev[1].bindings["x"]

\* x was 1 at top level and *allow-redefine* truthy; (define x 2) has
\* succeeded and x is 2.
RedefineWitness ==
    /\ evalOp.op = "eval"
    /\ evalOp.form = Define("x", IntV(2))
    /\ "x" \in DOMAIN framesPrev[1].bindings
    /\ framesPrev[1].bindings["x"] = IntV(1)
    /\ ~Falsey(framesPrev[1].bindings["*allow-redefine*"])
    /\ evalOp.k = "ok"
    /\ frames[1].bindings["x"] = IntV(2)

(***************************************************************************)
(* The tail-call specification: three procedures that count their         *)
(* argument down to 0 by calling themselves in tail position, through if,  *)
(* through begin and let, and from a closure over a let frame, called with *)
(* several arguments.                                                      *)
(***************************************************************************)
If(cond, then, else) == List(<<Sym("if"), cond, then, else>>)
Call1(name, arg) == List(<<Sym(name), arg>>)
Pred(name) == List(<<Sym("-"), Sym(name), IntV(1)>>)

\* (define (loop n) (if n (loop (- n 1)) 0))
DefineLoop ==
    List(<<Sym("define"), Call1("loop", Sym("n")),
           If(Sym("n"), Call1("loop", Pred("n")), IntV(0))>>)

\* (define (loop2 n) (begin (let ((m (- n 1))) (if n (loop2 m) 0))))
DefineLoop2 ==
    List(<<Sym("define"), Call1("loop2", Sym("n")),
           List(<<Sym("begin"),
                  Let1("m", Pred("n"),
                       If(Sym("n"), Call1("loop2", Sym("m")), IntV(0)))>>)>>)

\* (define loop3 (let ((k 0)) (lambda (n) (if n (loop3 (- n 1)) k))))
DefineLoop3 ==
    Define("loop3",
           Let1("k", IntV(0),
                List(<<Sym("lambda"), List(<<Sym("n")>>),
                       If(Sym("n"), Call1("loop3", Pred("n")), Sym("k"))>>)))

\* The calls, each with its argument, the number of self-calls it makes.
TailCalls ==
    <<[name |-> "loop", n |-> 1], [name |-> "loop", n |-> 2],
      [name |-> "loop", n |-> 4],
      [name |-> "loop2", n |-> 1], [name |-> "loop2", n |-> 3],
      [name |-> "loop3", n |-> 1], [name |-> "loop3", n |-> 3]>>

TailForms ==
    <<DefineLoop, DefineLoop2, DefineLoop3>>
    \o [i \in 1..Len(TailCalls) |->
           Call1(TailCalls[i].name, IntV(TailCalls[i].n))]

TailNext == DoEval(TailForms)

SpecTail == EvalInit /\ [][TailNext]_vars

\* The number of times the loop of lambda_apply restarted the procedure.
SelfCalls == Cardinality({j \in 1..Len(evalOp.tr) : evalOp.tr[j].ev = "tail_call"})

\* The deepest nesting of host calls when the form is evaluated in the
\* frames the last evaluation started from.
DepthOf(form) == Eval(NewState(framesPrev), form, 1, 1).st.maxd

\* C6: tail self-recursion runs in bounded host stack.  A call of a
\* procedure that calls itself only in tail position, reached through if,
\* begin and let, restarts the procedure once per self-call, and the
\* deepest nesting of host calls (eval, map_eval, apply, lambda_apply, the
\* until-last helpers, the handlers and the recursive lookup walk) is the
\* same for every number of self-calls: that of a call making one.
TailCallsBounded ==
    evalOp.op = "eval" =>
        \A i \in 1..Len(TailCalls) :
            evalOp.form = Call1(TailCalls[i].name, IntV(TailCalls[i].n))
               /\ evalOp.k = "ok"
            => /\ evalOp.v = IntV(0)
               /\ SelfCalls = TailCalls[i].n
               /\ evalOp.maxd = DepthOf(Call1(TailCalls[i].name, IntV(1)))

\* (loop 4) has completed after four self-calls, no deeper than (loop 1).
TailWitness ==
    /\ evalOp.op = "eval"
    /\ evalOp.form = Call1("loop", IntV(4))
    /\ evalOp.k = "ok"
    /\ SelfCalls = 4
    /\ evalOp.maxd = DepthOf(Call1("loop", IntV(1)))

(***************************************************************************)
(* The macro specification: programs that define macros at top level and   *)
(* call them at top level, inside a let and as the argument of another     *)
(* macro call.                                                             *)
(***************************************************************************)
DefineMacro(name, param, body) ==
    List(<<Sym("define-macro"), Call1(name, Sym(param)), body>>)
Cons2(a, b) == List(<<Sym("cons"), a, b>>)

\* (define-macro (m a) (cons 'quote (cons a ())))
DefineM == DefineMacro("m", "a", Cons2(Quote(Sym("quote")), Cons2(Sym("a"), Nil)))

\* (define-macro (inc a) (cons '+ (cons a (cons 1 ()))))
DefineInc ==
    DefineMacro("inc", "a",
                Cons2(Quote(Sym("+")), Cons2(Sym("a"), Cons2(IntV(1), Nil))))

\* (define-macro (bad a) (car a))
DefineBad == DefineMacro("bad", "a", Call1("car", Sym("a")))

CarOfOne == Call1("car", IntV(1))
LetBad == Let1("x", IntV(1), Call1("bad", Sym("x")))
LetInc == Let1("x", IntV(5), Call1("inc", Sym("x")))
IncInc == Call1("inc", Call1("inc", IntV(1)))

MacroForms ==
    <<DefineM, Call1("m", CarOfOne),
      DefineInc, LetInc, IncInc,
      Define("x", IntV(1)),
      DefineBad, Call1("bad", IntV(1)), LetBad>>

MacroNext == DoEval(MacroForms)

SpecMacro == EvalInit /\ [][MacroNext]_vars

\* The macro a form's head names, in the macro tables the evaluation
\* started with (special forms come first and are no macro calls).
MacroOf(form) ==
    IF form.t = "cons" /\ form.car.t = "sym" /\ form.car.s \notin HANDLERS
    THEN LookupMacro(framesPrev, 1, form.car.s)
    ELSE None

\* The event j records the return of the procedure applied at event a.
IsReturnOf(j, a) ==
    /\ j > a
    /\ evalOp.tr[j].ev = "lambda_ret"
    /\ evalOp.tr[j].d = evalOp.tr[a].d
    /\ \A h \in (a + 1)..(j - 1) :
          ~(evalOp.tr[h].ev = "lambda_ret" /\ evalOp.tr[h].d = evalOp.tr[a].d)

\* C7: a macro transformer receives its argument forms unevaluated.  When
\* eval meets a form whose head names a macro, the next thing that happens
\* is the application of the macro's procedure to the form's argument list
\* as written, with no evaluation in between; when the transformer returns
\* a value, the next thing that happens is the evaluation of that value in
\* the environment and at the place of the macro call.
MacroArgsUnevaluated ==
    evalOp.op = "eval" =>
        /\ \A i \in 1..Len(evalOp.tr) :
              evalOp.tr[i].ev = "eval" /\ MacroOf(evalOp.tr[i].form).some
              => /\ i < Len(evalOp.tr)
                 /\ evalOp.tr[i + 1].ev = "lambda_apply"
                 /\ evalOp.tr[i + 1].id = MacroOf(evalOp.tr[i].form).v.id
                 /\ evalOp.tr[i + 1].arg = evalOp.tr[i].form.cdr
                 /\ \A j \in (i + 2)..Len(evalOp.tr) :
                       IsReturnOf(j, i + 1) /\ evalOp.tr[j].k = "ok"
                       => /\ j < Len(evalOp.tr)
                          /\ evalOp.tr[j + 1] =
                                [ev |-> "eval", form |-> evalOp.tr[j].v,
                                 env |-> evalOp.tr[i].env,
                                 d |-> evalOp.tr[i].d]
        /\ evalOp.form = Call1("m", CarOfOne) /\ MacroOf(evalOp.form).some
           => evalOp.k = "ok" /\ evalOp.v = CarOfOne
        /\ evalOp.form = LetInc /\ MacroOf(Call1("inc", Sym("x"))).some
           => evalOp.k = "ok" /\ evalOp.v = IntV(6)
        /\ evalOp.form = IncInc /\ MacroOf(evalOp.form).some
           => evalOp.k = "ok" /\ evalOp.v = IntV(3)
        /\ evalOp.form = Call1("bad", IntV(1)) /\ MacroOf(evalOp.form).some
           => /\ evalOp.k = "err"
              /\ evalOp.v.errname = "macro-expansion-error"
              /\ evalOp.v.cause.some

\* x is 1 at top level and inc is a macro; (let ((x 5)) (inc x)) has handed
\* the symbol x to the transformer and evaluated (+ x 1) inside the let.
MacroWitness ==
    /\ evalOp.op = "eval"
    /\ evalOp.form = LetInc
    /\ "x" \in DOMAIN framesPrev[1].bindings
    /\ \E i \in 1..Len(evalOp.tr) :
          /\ evalOp.tr[i].ev = "lambda_apply"
          /\ evalOp.tr[i].arg = List(<<Sym("x")>>)
    /\ \E i \in 1..Len(evalOp.tr) :
          /\ evalOp.tr[i].ev = "eval"
          /\ evalOp.tr[i].form = List(<<Sym("+"), Sym("x"), IntV(1)>>)
          /\ evalOp.tr[i].env = Len(framesPrev) + 1
    /\ evalOp.v = IntV(6)

(***************************************************************************)
(* The error source specification: errors raised by car and by an unbound  *)
(* symbol cross the native eval and procedures that call one another.      *)
(***************************************************************************)
DefineProc(name, body) == List(<<Sym("define"), List(<<Sym(name)>>), body>>)
Call0(name) == List(<<Sym(name)>>)

RaiseForms ==
    <<CarOfOne,
      Call1("eval", Quote(CarOfOne)),
      DefineProc("f", CarOfOne), Call0("f"),
      DefineProc("g", Call0("f")), Call0("g"),
      DefineProc("h", Sym("y")), Call0("h"),
      DefineProc("e", Call1("eval", Quote(Call0("f")))), Call0("e"),
      DefineProc("k", List(<<Lambda0(Call0("f"))>>)), Call0("k")>>

RaiseNext == DoEval(RaiseForms)

SpecRaise == EvalInit /\ [][RaiseNext]_vars

\* The node the error started as: the last of its cause chain.
RaiseSite(err) == ChainNode(err, ChainLength(err))

CatchError(body) == Cons(Sym("catch-error"), List(body))

CatchForms ==
    <<CatchError(<<>>),
      CatchError(<<IntV(1), IntV(2)>>),
      CatchError(<<CarOfOne>>),
      CatchError(<<Define("x", IntV(1)), CarOfOne, Define("y", IntV(2))>>),
      CatchError(<<Define("y", IntV(3)), Sym("y")>>),
      CatchError(<<Sym("x")>>),
      CatchError(<<CatchError(<<CarOfOne>>), IntV(5)>>),
      Call1("car", CatchError(<<CarOfOne>>)),
      CarOfOne,
      DefineProc("f", CarOfOne),
      CatchError(<<IntV(1), Call0("f")>>)>>

CatchNext == DoEval(CatchForms)

SpecCatch == EvalInit /\ [][CatchNext]_vars

\* The body forms evaluated one after the other as forms of their own, from
\* the frames fr: the outcome of the first that fails, or else of the last.
RECURSIVE InOrder(_, _, _)
InOrder(fr, body, i) ==
    IF Len(body) = 0 THEN Ok(NewState(fr), Nil)
    ELSE Bind(Eval(NewState(fr), body[i], 1, 1), LAMBDA r :
              IF r.k # "ok" \/ i = Len(body) THEN r
              ELSE InOrder(r.st.fr, body, i + 1))

IsCatchError(form) == form.t = "cons" /\ form.car = Sym("catch-error")

\* What catch-error makes of the outcome r of its body.
AsData(r) == IF r.k = "err" THEN LError(r.v) ELSE r.v

\* C12: catch-error turns failure into data.  A catch-error form evaluates
\* its body forms in order like begin and always ends with a value: the
\* value of the last body form when all succeed (nil for an empty body), and
\* when one fails an Error value that holds that RuntimeError, the later
\* body forms not being evaluated; the frames are left as the evaluated
\* body forms left them.  The Error value is ordinary data: car of it is a
\* type-error of car, raised outside the catch-error.
CatchErrorReturnsData ==
    evalOp.op = "eval" =>
        /\ IsCatchError(evalOp.form)
           => /\ evalOp.k = "ok"
              /\ evalOp.v = AsData(InOrder(framesPrev,
                                           ListToVec(evalOp.form.cdr).v, 1))
              /\ frames = InOrder(framesPrev,
                                  ListToVec(evalOp.form.cdr).v, 1).st.fr
        /\ evalOp.form = CatchError(<<CarOfOne>>)
           => /\ evalOp.v.t = "error"
              /\ evalOp.v.err.errname = "type-error"
        /\ evalOp.form = Call1("car", CatchError(<<CarOfOne>>))
           => /\ evalOp.k = "err"
              /\ evalOp.v.errname = "type-error"
              /\ evalOp.v.value.v.str[2].t = "error"

\* The body defined x and then failed in (car 1): the result is the Error
\* value of the type-error, x is defined and y, defined after the failure,
\* is not.
CatchWitness ==
    /\ evalOp.op = "eval"
    /\ evalOp.form = CatchError(<<Define("x", IntV(1)), CarOfOne,
                                  Define("y", IntV(2))>>)
    /\ "x" \notin DOMAIN framesPrev[1].bindings
    /\ evalOp.k = "ok"
    /\ evalOp.v.t = "error"
    /\ evalOp.v.err.errname = "type-error"
    /\ "x" \in DOMAIN frames[1].bindings
    /\ "y" \notin DOMAIN frames[1].bindings

(***************************************************************************)
(* Ownership, over the programs of the definition specification: a frame   *)
(* owns its parent and the values bound in it, a procedure owns its        *)
(* closure frame.                                                          *)
(***************************************************************************)
\* The closure frames of the procedures a value holds.
RECURSIVE ClosuresOf(_)
ClosuresOf(obj) ==
    IF obj.t = "proc" THEN {obj.env}
    ELSE IF obj.t = "cons" THEN ClosuresOf(obj.car) \cup ClosuresOf(obj.cdr)
    ELSE {}

\* The frames that frame e owns in one or two steps: its parent, and the
\* closure frames of the values in its bindings, macros and character
\* handlers.
Owns(e) ==
    (IF frames[e].parent # 0 THEN {frames[e].parent} ELSE {})
    \cup UNION {ClosuresOf(frames[e].bindings[n]) :
                   n \in DOMAIN frames[e].bindings}
    \cup (IF frames[e].macros.some
          THEN UNION {ClosuresOf(frames[e].macros.v[n]) :
                         n \in DOMAIN frames[e].macros.v}
          ELSE {})
    \cup (IF frames[e].special_chars.some
          THEN UNION {ClosuresOf(frames[e].special_chars.v[n]) :
                         n \in DOMAIN frames[e].special_chars.v}
          ELSE {})

RECURSIVE OwnedWithin(_, _)
OwnedWithin(S, n) ==
    IF n = 0 THEN S
    ELSE OwnedWithin(S \cup UNION {Owns(e) : e \in S}, n - 1)

\* The frames e reaches along ownership.
Reaches(e) == OwnedWithin(Owns(e), Len(frames))

IfZero == If(IntV(0), IntV(1), IntV(2))
AndOneZero == List(<<Sym("and"), IntV(1), IntV(0)>>)

\* (define (and a) (if a (and 0) 7))
DefineAnd ==
    List(<<Sym("define"), Call1("and", Sym("a")),
           If(Sym("a"), Call1("and", IntV(0)), IntV(7))>>)

\* (apply and '(1))
ApplyAnd == List(<<Sym("apply"), Sym("and"), Quote(List(<<IntV(1)>>))>>)

PrecedenceForms ==
    <<Define("if", IntV(5)), IfZero,
      DefineMacro("quote", "a", IntV(1)), Quote(Sym("x")),
      DefineAnd, AndOneZero, ApplyAnd,
      DefineInc, Define("inc", IntV(5)), Call1("inc", IntV(1)),
      Call1("car", Quote(List(<<IntV(1)>>)))>>

PrecedenceNext == DoEval(PrecedenceForms)

SpecPrecedence == EvalInit /\ [][PrecedenceNext]_vars

\* The event after event i is the evaluation of the head of the form of i,
\* as the first step of an ordinary call.
HeadEvaluatedNext(i) ==
    /\ i < Len(evalOp.tr)
    /\ evalOp.tr[i + 1].ev = "eval"
    /\ evalOp.tr[i + 1].form = evalOp.tr[i].form.car
    /\ evalOp.tr[i + 1].d = evalOp.tr[i].d + 1

\* C14: special forms take precedence in dispatch.  A form whose head names
\* a special form is handled by the special form, also when the name is
\* bound as a variable or registered as a macro: (if 0 1 2) is 2,
\* (quote x) is x, (and 1 0) is 0, and the head is never evaluated; a head
\* that names a macro and no special form is expanded, also when it is
\* bound as a variable; and the same holds for the last expression of a
\* procedure body: in the body of the procedure bound to and, (and 0) is
\* the special form and yields 0.
SpecialFormsFirst ==
    evalOp.op = "eval" =>
        /\ \A i \in 1..Len(evalOp.tr) :
              /\ evalOp.tr[i].ev = "eval"
              /\ evalOp.tr[i].form.t = "cons"
              /\ evalOp.tr[i].form.car.t = "sym"
              /\ \/ evalOp.tr[i].form.car.s \in HANDLERS
                 \/ MacroOf(evalOp.tr[i].form).some
              => ~HeadEvaluatedNext(i)
        /\ evalOp.form = IfZero => evalOp.k = "ok" /\ evalOp.v = IntV(2)
        /\ evalOp.form = Quote(Sym("x"))
           => evalOp.k = "ok" /\ evalOp.v = Sym("x")
        /\ evalOp.form = AndOneZero => evalOp.k = "ok" /\ evalOp.v = IntV(0)
        /\ evalOp.form = Call1("inc", IntV(1))
              /\ MacroOf(evalOp.form).some
           => evalOp.k = "ok" /\ evalOp.v = IntV(2)
        /\ evalOp.form = ApplyAnd /\ "and" \in DOMAIN framesPrev[1].bindings
           => evalOp.k = "ok" /\ evalOp.v = IntV(0)

(***************************************************************************)
(* The and/or specification: and and or over every list of up to           *)
(* MaxOperands arguments drawn from two falsey values, two truthy values   *)
(* and an expression that fails.                                           *)
(***************************************************************************)
MaxOperands == 2

AndOrAtoms == <<IntV(0), Nil, IntV(1), IntV(2), CarOfOne>>

\* Every list of exactly n of the atoms.
RECURSIVE AtomLists(_, _)
AtomLists(atoms, n) ==
    IF n = 0 THEN << <<>> >>
    ELSE [k \in 1..(Len(AtomLists(atoms, n - 1)) * Len(atoms)) |->
             Append(AtomLists(atoms, n - 1)[((k - 1) \div Len(atoms)) + 1],
                    atoms[((k - 1) % Len(atoms)) + 1])]

\* Every list of at most n of the atoms.
RECURSIVE AtomListsUpTo(_, _)
AtomListsUpTo(atoms, n) ==
    IF n = 0 THEN AtomLists(atoms, 0)
    ELSE AtomListsUpTo(atoms, n - 1) \o AtomLists(atoms, n)

\* The calls of head on each of the argument lists.
CallsOf(head, lists) ==
    [k \in 1..Len(lists) |-> Cons(Sym(head), List(lists[k]))]

AndOrForms ==
    CallsOf("and", AtomListsUpTo(AndOrAtoms, MaxOperands))
    \o CallsOf("or", AtomListsUpTo(AndOrAtoms, MaxOperands))

AndOrNext == DoEval(AndOrForms)

SpecAndOr == EvalInit /\ [][AndOrNext]_vars

\* What and (stop = TRUE on a falsey value) and or (stop on a truthy one)
\* are to give for the atoms args from the i-th on, val being the value so
\* far: the outcome and the number n of arguments evaluated.
RECURSIVE ShortCircuit(_, _, _, _)
ShortCircuit(falseyStops, args, i, val) ==
    IF i > Len(args) THEN [k |-> "ok", v |-> val, n |-> Len(args)]
    ELSE IF args[i] = CarOfOne THEN [k |-> "err", v |-> val, n |-> i]
    ELSE IF Falsey(args[i]) = falseyStops
         THEN [k |-> "ok", v |-> args[i], n |-> i]
         ELSE ShortCircuit(falseyStops, args, i + 1, args[i])

\* The argument forms the handler evaluated, in the order of evaluation.
ArgsEvaluated ==
    [i \in 1..Len(SelectSeq(evalOp.tr, LAMBDA e : e.ev = "eval" /\ e.d = 3)) |->
        SelectSeq(evalOp.tr, LAMBDA e : e.ev = "eval" /\ e.d = 3)[i].form]

\* The outcome of the last evaluation is the expected one.
AndOrAgrees(expected, args) ==
    /\ evalOp.k = expected.k
    /\ expected.k = "ok" => evalOp.v = expected.v
    /\ expected.k = "err" => evalOp.v.errname = "type-error"
    /\ ArgsEvaluated = SubSeq(args, 1, expected.n)

\* C15: and / or short-circuit left to right.  and evaluates its arguments
\* in order and returns the first falsey value without evaluating any later
\* argument, the last value when none is falsey and the symbol true for no
\* arguments; or does the same stopping at the first truthy value, with the
\* last value when none is truthy and the symbol false for no arguments.
\* An argument that fails before the stop is the outcome.
AndOrShortCircuit ==
    evalOp.op = "eval" =>
        /\ evalOp.form.car = Sym("and")
           => AndOrAgrees(ShortCircuit(TRUE, ListToVec(evalOp.form.cdr).v, 1,
                                       Sym("true")),
                          ListToVec(evalOp.form.cdr).v)
        /\ evalOp.form.car = Sym("or")
           => AndOrAgrees(ShortCircuit(FALSE, ListToVec(evalOp.form.cdr).v, 1,
                                       Sym("false")),
                          ListToVec(evalOp.form.cdr).v)

\* (and 0 (car 1)) has given 0 after one evaluation: the failing second
\* argument was not evaluated.
AndOrWitness ==
    /\ evalOp.op = "eval"
    /\ evalOp.form = List(<<Sym("and"), IntV(0), CarOfOne>>)
    /\ evalOp.k = "ok"
    /\ evalOp.v = IntV(0)
    /\ ArgsEvaluated = <<IntV(0)>>

(***************************************************************************)
(* The arithmetic specification: +, * and - over every list of up to       *)
(* MaxOperands integers drawn from small values of both signs and the      *)
(* largest i64.                                                            *)
(***************************************************************************)
ArithAtoms == <<IntV(-1), IntV(2), IntV(3), MaxI64>>

ArithForms ==
    CallsOf("+", AtomListsUpTo(ArithAtoms, MaxOperands))
    \o CallsOf("*", AtomListsUpTo(ArithAtoms, MaxOperands))
    \o CallsOf("-", AtomListsUpTo(ArithAtoms, MaxOperands))

ArithNext == DoEval(ArithForms)

SpecArith == EvalInit /\ [][ArithNext]_vars

\* An integer of any size, as the coefficients c[1], c[2], ... of
\* c[1] + c[2] * 2^62 + c[3] * 2^124 + ...
ExactOf(obj) == <<obj.n, obj.q>>

Coefficient(c, i) == IF i \in 1..Len(c) THEN c[i] ELSE 0

ExactSum(a, b) ==
    [i \in 1..(IF Len(a) > Len(b) THEN Len(a) ELSE Len(b)) |->
        Coefficient(a, i) + Coefficient(b, i)]

ExactNeg(a) == [i \in 1..Len(a) |-> 0 - a[i]]

\* The sum of a[i] * b[k + 1 - i] over i from 1 to upto.
RECURSIVE Convolution(_, _, _, _)
Convolution(a, b, k, upto) ==
    IF upto = 0 THEN 0
    ELSE Coefficient(a, upto) * Coefficient(b, k + 1 - upto)
         + Convolution(a, b, k, upto - 1)

ExactProduct(a, b) ==
    [k \in 1..(Len(a) + Len(b) - 1) |-> Convolution(a, b, k, k)]

\* op folded over the integers args[i..] from the exact value acc.
RECURSIVE ExactFold(_, _, _, _)
ExactFold(op, acc, args, i) ==
    IF i > Len(args) THEN acc
    ELSE ExactFold(op,
                   CASE op = "+" -> ExactSum(acc, ExactOf(args[i]))
                     [] op = "*" -> ExactProduct(acc, ExactOf(args[i]))
                     [] op = "-" -> ExactSum(acc, ExactNeg(ExactOf(args[i]))),
                   args, i + 1)

\* The last evaluation gave the Integer of the exact value c.
GaveInteger(c) ==
    /\ evalOp.k = "ok"
    /\ evalOp.v.t = "int"
    /\ evalOp.v.n = Coefficient(c, 1)
    /\ evalOp.v.q = Coefficient(c, 2)
    /\ \A i \in 3..Len(c) : c[i] = 0

\* What the arithmetic call form is to give.
ArithExpected(form) ==
    CASE form.car = Sym("+") ->
           ExactFold("+", ExactOf(IntV(0)), ListToVec(form.cdr).v, 1)
      [] form.car = Sym("*") ->
           ExactFold("*", ExactOf(IntV(1)), ListToVec(form.cdr).v, 1)
      [] form.car = Sym("-") /\ form.cdr.cdr = Nil ->
           ExactNeg(ExactOf(form.cdr.car))
      [] form.car = Sym("-") /\ form.cdr.cdr # Nil ->
           ExactFold("-", ExactOf(form.cdr.car), ListToVec(form.cdr).v, 2)

\* C16: integer arithmetic folds from the identity.  For integer arguments
\* (+ a1 .. an) is their sum and 0 for n = 0, (* a1 .. an) is their product
\* and 1 for n = 0, (- a) is -a, and (- a b1 .. bn) with n >= 1 is
\* a - b1 - ... - bn, each result being an Integer.
ArithmeticFolds ==
    evalOp.op = "eval" /\ evalOp.form # List(<<Sym("-")>>)
        => GaveInteger(ArithExpected(evalOp.form))

(***************************************************************************)
(* The error-kind specification: car, cdr and cons over every list of up   *)
(* to MaxOperands arguments that are a number, a symbol or a cons, and     *)
(* +, -, * and / over every such list of numbers and symbols.              *)
(***************************************************************************)
ListAtoms == <<IntV(1), Quote(Sym("a")), Quote(List(<<IntV(1)>>))>>
NumberAtoms == <<IntV(1), Quote(Sym("a"))>>

KindForms ==
    CallsOf("car", AtomListsUpTo(ListAtoms, MaxOperands))
    \o CallsOf("cdr", AtomListsUpTo(ListAtoms, MaxOperands))
    \o CallsOf("cons", AtomListsUpTo(ListAtoms, MaxOperands))
    \o CallsOf("cons", AtomLists(NumberAtoms, MaxOperands + 1))
    \o CallsOf("+", AtomListsUpTo(NumberAtoms, MaxOperands))
    \o CallsOf("-", AtomListsUpTo(NumberAtoms, MaxOperands))
    \o CallsOf("*", AtomListsUpTo(NumberAtoms, MaxOperands))
    \o CallsOf("/", AtomListsUpTo(NumberAtoms, MaxOperands))

KindNext == DoEval(KindForms)

SpecKinds == EvalInit /\ [][KindNext]_vars

\* The value an atom evaluates to: a number is itself, a quotation is what
\* it quotes.
AtomValue(atom) == IF atom.t = "cons" THEN atom.cdr.car ELSE atom

\* The values the last evaluated call was given.
Given == [i \in 1..Len(ListToVec(evalOp.form.cdr).v) |->
             AtomValue(ListToVec(evalOp.form.cdr).v[i])]

\* The last evaluation ended with an error of the kind.
Raised(kind) == evalOp.k = "err" /\ evalOp.v.errname = kind

\* C17: builtins report wrong type and wrong argument count under distinct
\* kinds, and the kind is that of the error eval returns.  car and cdr given
\* exactly one argument that is not a cons yield type-error and given zero
\* or more than one argument yield arity-error; cons given any number of
\* arguments other than two yields arity-error; +, -, * and / given an
\* argument that is not a number yield type-error; - and / given no
\* arguments yield arity-error.
ErrorKinds ==
    evalOp.op = "eval" =>
        /\ evalOp.form.car \in {Sym("car"), Sym("cdr")}
           => /\ Len(Given) = 1 /\ Given[1].t # "cons" => Raised("type-error")
              /\ Len(Given) # 1 => Raised("arity-error")
        /\ evalOp.form.car = Sym("cons") /\ Len(Given) # 2
           => Raised("arity-error")
        /\ /\ evalOp.form.car \in {Sym("+"), Sym("-"), Sym("*"), Sym("/")}
           /\ \E i \in 1..Len(Given) : ~IsNumber(Given[i])
           => Raised("type-error")
        /\ evalOp.form.car \in {Sym("-"), Sym("/")} /\ Len(Given) = 0
           => Raised("arity-error")

\* (car 1 'a) has raised an arity-error although its first argument is no
\* cons, and the error eval returned names car as its source.
ErrorKindsWitness ==
    /\ evalOp.op = "eval"
    /\ evalOp.form = List(<<Sym("car"), IntV(1), Quote(Sym("a"))>>)
    /\ Raised("arity-error")
    /\ evalOp.v.source = Some(Native("car"))

(***************************************************************************)
(* The collecting specification: vectors are collected from sources of n   *)
(* distinct items whose size_hint has no upper bound, the exact one or a   *)
(* larger one (as of a filter), and every vector stays available.          *)
(***************************************************************************)
\* The source that yields 1, 2, ..., n.
Counting(n) == [i \in 1..n |-> i]

DoFromIter ==
    /\ Len(vecs) < MaxVecs
    /\ \E n \in 0..MaxVecSize :
       \E high \in {None} \cup {Some(m) : m \in n..MaxVecSize} :
         LET r == VecFromIter(nodes, Counting(n), high)
         IN /\ nodes' = r.h
            /\ vecs' = Append(vecs, r.vec)
            /\ nodesPrev' = nodes
            /\ vecOp' = [op |-> "from_iter", items |-> Counting(n),
                         high |-> high, out |-> Len(vecs) + 1]
            /\ UNCHANGED exceptVec

CollectNext == DoFromIter

SpecCollect == VecInit /\ [][CollectNext]_vars

\* C18: building a PersistentVec from a sequence preserves length and
\* order.  Collecting any finite sequence of n elements yields a vector
\* with len() = n whose lookup(i) is the i-th element for every i < n and
\* whose iterator yields exactly those n elements in the same order.
FromIterPreserves ==
    vecOp.op = "from_iter" =>
        /\ vecs[vecOp.out].size = Len(vecOp.items)
        /\ \A i \in 0..(Len(vecOp.items) - 1) :
             VecLookup(nodes, vecs[vecOp.out], i) = Some(vecOp.items[i + 1])
        /\ VecIter(nodes, vecs[vecOp.out]) = [k |-> "ok", items |-> vecOp.items]

(***************************************************************************)
(* The pushing specification: empty vectors are made and items pushed on   *)
(* any vector made so far, every vector staying available.                 *)
(***************************************************************************)
DoNew ==
    /\ Len(vecs) <= MaxVecs
    /\ LET r == VecNew(nodes)
       IN /\ nodes' = r.h
          /\ vecs' = Append(vecs, r.vec)
          /\ nodesPrev' = nodes
          /\ vecOp' = [op |-> "new", out |-> Len(vecs) + 1]
          /\ UNCHANGED exceptVec

DoPush ==
    /\ Len(vecs) <= MaxVecs
    /\ \E s \in 1..Len(vecs), x \in VecItems :
         LET r == VecPush(nodes, vecs[s], x)
         IN /\ nodes' = r.h
            /\ vecs' = IF r.k = "ok" THEN Append(vecs, r.vec) ELSE vecs
            /\ nodesPrev' = nodes
            /\ vecOp' = [op |-> "push", src |-> s, item |-> x, k |-> r.k,
                         out |-> IF r.k = "ok" THEN Len(vecs) + 1 ELSE 0]
            /\ UNCHANGED exceptVec

PushNext == DoNew \/ DoPush

SpecPush == VecInit /\ [][PushNext]_vars

\* C19: push appends for any number of pushes.  Starting from
\* PersistentVec::new(), the i-th push of a sequence of pushes yields a
\* vector of length i whose lookup(i-1) is the i-th pushed item, each push
\* returning a new vector one element longer than its input.
PushAppends ==
    vecOp.op = "push" =>
        /\ vecOp.k = "ok"
        /\ vecs[vecOp.out].size = vecs[vecOp.src].size + 1
        /\ VecLookup(nodes, vecs[vecOp.out], vecs[vecOp.src].size)
             = Some(vecOp.item)

(***************************************************************************)
(* Frames of tail self-calls, checked under the tail-call specification.   *)
(***************************************************************************)
\* The number of frames from e up to the top level.
RECURSIVE ChainOfFrames(_, _)
ChainOfFrames(fr, e) ==
    IF fr[e].parent = 0 THEN 1 ELSE 1 + ChainOfFrames(fr, fr[e].parent)

\* The procedure the last evaluated call named.
Called == framesPrev[1].bindings[evalOp.form.car.s]

\* The tail self-calls of the last evaluation, in order.
TailCallEvents == SelectSeq(evalOp.tr, LAMBDA e : e.ev = "tail_call")

\* C20: frame reuse in a tail self-call is equivalent to allocating a fresh
\* frame.  In every iteration of lambda_apply's self-call loop, reused or
\* fresh, the body runs in a frame whose parent is the procedure's closure
\* environment and whose bindings are exactly the newly bound parameters,
\* so the frame chain does not grow with the iterations and no binding of
\* an earlier iteration or of an enclosing let is visible.
TailFramesFresh ==
    evalOp.op = "eval" /\ evalOp.form.car.s \in {"loop", "loop2", "loop3"} =>
        \A j \in 1..Len(TailCallEvents) :
            /\ TailCallEvents[j].frame.parent = Called.env
            /\ DOMAIN TailCallEvents[j].frame.bindings = {"n"}
            /\ TailCallEvents[j].frame.bindings["n"] = TailCallEvents[j].arg.car
            /\ 1 + ChainOfFrames(frames, TailCallEvents[j].frame.parent)
                 = ChainOfFrames(frames, Called.env) + 1
            /\ ~EnvLookup(frames, TailCallEvents[j].frame.parent, "m").some

\* (loop2 3) has made three self-calls, each from the frame of the let
\* around the call, where m is bound, and each started in a frame of its
\* own under the top level.
TailFramesWitness ==
    /\ evalOp.op = "eval"
    /\ evalOp.form = Call1("loop2", IntV(3))
    /\ evalOp.k = "ok"
    /\ Len(TailCallEvents) = 3
    /\ \A j \in 1..3 :
         /\ "m" \in DOMAIN frames[TailCallEvents[j].from].bindings
         /\ TailCallEvents[j].from # TailCallEvents[j].started
         /\ TailCallEvents[j].frame.parent = 1
         /\ \A i \in 1..(j - 1) :
              TailCallEvents[i].started # TailCallEvents[j].started

(***************************************************************************)
(* The swap specification: the chain of frames of the environment          *)
(* specification, with names bound in any frame and swapped from any       *)
(* frame.                                                                   *)
(***************************************************************************)
DoSwapValues ==
    /\ \E e \in 1..Len(frames), n \in EnvNames, v \in EnvValues :
         /\ frames' = SwapValues(frames, e, n, v).fr
         /\ envOp' = [op |-> "swap_values", env |-> e, name |-> n,
                      new_val |-> v, before |-> frames,
                      res |-> SwapValues(frames, e, n, v).res]
    /\ UNCHANGED <<exceptEnv, procLog>>

SwapNext == DoFromParent \/ DoLetNew \/ DoSwapValues

SpecSwap == EnvInit /\ [][SwapNext]_vars

\* The frames of the chain of e in fr that bind the name, nearest first.
Binders(fr, e, name) ==
    SelectSeq(ChainOf(fr, e), LAMBDA f : name \in DOMAIN fr[f].bindings)

\* C21: swap_values replaces in the owning frame only.  When the name is
\* bound somewhere on the chain, the binding in the nearest frame that
\* defines it is replaced by the new value, the old value is returned and
\* every other binding in every frame is unchanged; when the name is bound
\* in no frame of the chain, None is returned and no frame changes.
SwapReplacesInOwner ==
    envOp.op = "swap_values" =>
        IF Binders(envOp.before, envOp.env, envOp.name) = <<>>
        THEN envOp.res = None /\ frames = envOp.before
        ELSE /\ envOp.res
                  = Some(envOp.before[Binders(envOp.before, envOp.env,
                                              envOp.name)[1]]
                             .bindings[envOp.name])
             /\ frames
                  = [envOp.before EXCEPT
                       ![Binders(envOp.before, envOp.env, envOp.name)[1]]
                           .bindings[envOp.name] = envOp.new_val]

\* A swap has started below the owning frame, with the name bound to
\* another value further out still, and has put a new value in the owner.
SwapWitness ==
    /\ envOp.op = "swap_values"
    /\ Len(Binders(envOp.before, envOp.env, envOp.name)) = 2
    /\ Binders(envOp.before, envOp.env, envOp.name)[1] # envOp.env
    /\ envOp.res.some
    /\ envOp.res.v # envOp.new_val
    /\ frames[Binders(envOp.before, envOp.env, envOp.name)[2]]
           .bindings[envOp.name] # envOp.new_val

(***************************************************************************)
(* The binding specification: argument lists are bound against arities     *)
(* into a frame that holds macros and bindings from before: what let_macro *)
(* put there, and what earlier bindings, complete or failed part-way,      *)
(* left.                                                                   *)
(***************************************************************************)
DoLetMacro ==
    /\ \E e \in 1..Len(frames), n \in EnvNames, v \in EnvValues :
         /\ frames' = LetMacro(frames, e, n, v).fr
         /\ envOp' = [op |-> "let_macro", env |-> e, name |-> n]
    /\ UNCHANGED <<exceptEnv, procLog>>

DoParseArgsInto ==
    /\ \E e \in 1..Len(frames), a \in 1..Len(DispatchArities),
          n \in 0..MaxArgs :
         LET r == ParseArgsInto(NewState(frames), DispatchArities[a],
                                IntList(1, n), e)
         IN /\ frames' = r.st.fr
            /\ envOp' = [op |-> "parse_args_into", env |-> e,
                         arity |-> DispatchArities[a], nargs |-> n,
                         k |-> r.k, v |-> r.v, before |-> frames]
    /\ UNCHANGED <<exceptEnv, procLog>>

BindNext == DoLetMacro \/ DoParseArgsInto

SpecBind == EnvInit /\ [][BindNext]_vars

\* C22: argument binding leaves the call frame holding exactly the selected
\* clause's parameters.  After a successful bind each positional name is
\* bound to the argument at its position, the rest name (if declared) to
\* the list of the remaining arguments, and the frame has no other binding,
\* macro or character handler, none left by an earlier bind that failed
\* part-way or by a previous use of the frame; too few arguments, or extra
\* arguments without a rest name, yield an arity-error.
ArgsBoundExactly ==
    envOp.op = "parse_args_into" =>
        IF ArityMatches(envOp.arity, envOp.nargs)
        THEN /\ envOp.k = "ok"
             /\ frames = [envOp.before EXCEPT
                            ![envOp.env].bindings =
                                ArityBindings(envOp.arity, envOp.nargs),
                            ![envOp.env].macros = None,
                            ![envOp.env].special_chars = None]
        ELSE /\ envOp.k = "err"
             /\ envOp.v = ArityMismatch(envOp.arity, envOp.nargs)

\* A bind of (a . r) has succeeded in a frame that held a macro and the
\* binding of b that a failed bind of (a b) had left there.
ArgsBoundWitness ==
    /\ envOp.op = "parse_args_into"
    /\ envOp.k = "ok"
    /\ envOp.arity = ArityObj(<<"a">>, Some("r"))
    /\ envOp.before[envOp.env].macros.some
    /\ DOMAIN envOp.before[envOp.env].bindings = {"a"}
    /\ DOMAIN frames[envOp.env].bindings = {"a", "r"}

(***************************************************************************)
(* Failing macro expansions, under the macro specification.                *)
(***************************************************************************)
MacroNames == {"m", "inc", "bad", "x", "car", "if"}

\* The error eval gives for a macro whose transformer failed with cause.
ExpansionError(macro_name, cause) ==
    RuntimeErrorNew("macro-expansion-error",
                    Some(Str(<<"error in expansion of macro", macro_name>>)),
                    Some(cause), None)

\* C23: a failing macro expansion is reported as a macro-expansion-error.
\* When eval meets a form whose head names a macro and the application of
\* the macro's procedure to the argument forms returns an error, the
\* evaluation ends in an error of kind macro-expansion-error whose cause is
\* the error the procedure returned, kind and value and all, and whose value
\* names the macro (the macro calls here stand at the top level or as the
\* body of a let, from where the error reaches the caller as it is); and
\* for a name that no frame of the chain has a macro for, try_macro_expand
\* returns no expansion, no error, and the state it was given.
ExpansionFailureReported ==
    /\ evalOp.op = "eval" =>
          \A i \in 1..Len(evalOp.tr) : \A j \in 1..Len(evalOp.tr) :
              /\ evalOp.tr[i].ev = "eval"
              /\ MacroOf(evalOp.tr[i].form).some
              /\ i < Len(evalOp.tr)
              /\ IsReturnOf(j, i + 1)
              /\ evalOp.tr[j].k = "err"
              => /\ evalOp.k = "err"
                 /\ evalOp.v = ExpansionError(evalOp.tr[i].form.car.s,
                                              evalOp.tr[j].v)
                 /\ evalOp.v.cause.v.errname = evalOp.tr[j].v.errname
                 /\ evalOp.v.cause.v.value = evalOp.tr[j].v.value
                 /\ j = Len(evalOp.tr)
    /\ \A e \in 1..Len(frames) : \A n \in MacroNames :
          ~LookupMacro(frames, e, n).some
          => TryMacroExpand(NewState(frames), n, List(<<IntV(1)>>), e, 1)
                = Ok(NewState(frames), None)

\* (bad x) in a let, with bad defined as a macro that takes the car of its
\* argument form: the transformer fails with a type-error and eval reports
\* a macro-expansion-error that has the type-error as its cause; and at
\* that point no frame has a macro named m.
ExpansionFailureWitness ==
    /\ evalOp.op = "eval"
    /\ evalOp.form = LetBad
    /\ LookupMacro(framesPrev, 1, "bad").some
    /\ ~LookupMacro(frames, 1, "m").some
    /\ evalOp.k = "err"
    /\ evalOp.v.errname = "macro-expansion-error"
    /\ evalOp.v.cause.some
    /\ evalOp.v.cause.v.errname = "type-error"
    /\ \E i \in 1..Len(evalOp.tr) :
          /\ evalOp.tr[i].ev = "lambda_ret"
          /\ evalOp.tr[i].k = "err"
          /\ evalOp.tr[i].v = evalOp.v.cause.v

(***************************************************************************)
(* The if specification: if on every choice of a condition, a first and a  *)
(* second branch, and on argument lists of every other length up to        *)
(* MaxIfArgs.  The conditions give each of the falsey values, values that  *)
(* are not falsey, and an error; a branch gives a value or an error, and   *)
(* no form stands in two places.                                           *)
(***************************************************************************)
MaxIfArgs == 4

EmptyVector == [t |-> "vec", size |-> 0]
OneVector == [t |-> "vec", size |-> 1]

FalseyConds ==
    <<Nil, IntV(0), Str(<<>>), Quote(EmptyVector), Quote(Sym("false"))>>
TruthyConds ==
    <<IntV(5), Str(<<"a">>), Quote(OneVector), Quote(Sym("true")),
      Quote(List(<<IntV(0)>>))>>
FailingConds == <<Call1("car", IntV(5)), Sym("unbound")>>
IfConds == FalseyConds \o TruthyConds \o FailingConds
IfThens == <<IntV(1), Call1("car", IntV(1))>>
IfElses == <<IntV(2), Call1("cdr", IntV(2))>>

IfForms ==
    [k \in 1..(Len(IfConds) * Len(IfThens) * Len(IfElses)) |->
        If(IfConds[((k - 1) \div (Len(IfThens) * Len(IfElses))) + 1],
           IfThens[(((k - 1) \div Len(IfElses)) % Len(IfThens)) + 1],
           IfElses[((k - 1) % Len(IfElses)) + 1])]
    \o CallsOf("if", AtomListsUpTo(<<IntV(0), CarOfOne>>, 2))
    \o CallsOf("if", AtomLists(<<IntV(0), CarOfOne>>, MaxIfArgs))

IfNext == DoEval(IfForms)

SpecIf == EvalInit /\ [][IfNext]_vars

InSeq(x, seq) == \E i \in 1..Len(seq) : seq[i] = x

\* How many times the last evaluation evaluated the form.
Times(form) ==
    Len(SelectSeq(evalOp.tr, LAMBDA e : e.ev = "eval" /\ e.form = form))

\* The outcome is that of the branch: the branches that are integers give
\* themselves, and car and cdr of an integer fail.
GaveBranch(branch) ==
    IF branch.t = "int" THEN evalOp.k = "ok" /\ evalOp.v = branch
    ELSE evalOp.k = "err" /\ evalOp.v.errname = "type-error"

\* C24: if evaluates exactly one branch, chosen by falseyness.  With three
\* arguments the condition is evaluated once; when its value is falsey
\* (Nil, the integer 0, the empty string, the empty vector, the symbol
\* false) the third argument is evaluated once and the second never, and
\* the outcome is the third's; when the value is not falsey the second is
\* evaluated once and the third never; when the condition fails no branch
\* is evaluated.  With any other number of arguments the outcome is a
\* syntax-error and nothing but the if form itself was evaluated.
IfEvaluatesOneBranch ==
    evalOp.op = "eval" =>
        LET args == ListToVec(evalOp.form.cdr).v
        IN IF Len(args) = 3
           THEN /\ Times(args[1]) = 1
                /\ InSeq(args[1], FalseyConds)
                   => /\ Times(args[3]) = 1
                      /\ Times(args[2]) = 0
                      /\ GaveBranch(args[3])
                /\ InSeq(args[1], TruthyConds)
                   => /\ Times(args[2]) = 1
                      /\ Times(args[3]) = 0
                      /\ GaveBranch(args[2])
                /\ InSeq(args[1], FailingConds)
                   => /\ Times(args[2]) = 0
                      /\ Times(args[3]) = 0
                      /\ evalOp.k = "err"
                      /\ evalOp.v.errname \in {"type-error", "bound-error"}
           ELSE /\ evalOp.k = "err"
                /\ evalOp.v.errname = "syntax-error"
                /\ \A i \in 1..Len(evalOp.tr) :
                      evalOp.tr[i].ev = "eval" => i = 1

\* (if '#() (car 1) 2) has given 2: the empty vector is falsey and the
\* failing second argument was never evaluated; it follows an if of two
\* arguments that failed with a syntax-error.
IfWitness ==
    /\ evalOp.op = "eval"
    /\ evalOp.form = If(Quote(EmptyVector), Call1("car", IntV(1)), IntV(2))
    /\ evalOp.k = "ok"
    /\ evalOp.v = IntV(2)
    /\ Times(Call1("car", IntV(1))) = 0
    /\ Times(IntV(2)) = 1
    /\ evalCount = 2

(***************************************************************************)
(* The shape specification: a vector is built by one of the constructors   *)
(* and then updated by insert and push, each update taking the vector the  *)
(* last one gave.                                                          *)
(***************************************************************************)
DoRepeating ==
    /\ Len(vecs) < MaxVecs
    /\ \E n \in 0..MaxVecSize, x \in VecItems :
         LET r == VecRepeating(nodes, n, x)
         IN /\ nodes' = r.h
            /\ vecs' = Append(vecs, r.vec)
            /\ nodesPrev' = nodes
            /\ vecOp' = [op |-> "repeating", size |-> n, item |-> x,
                         out |-> Len(vecs) + 1]
            /\ UNCHANGED exceptVec

ShapeNext ==
    \/ vecs = <<>> /\ (DoNew \/ DoWithSize \/ DoFromIter \/ DoRepeating)
    \/ (DoInsert \/ DoPush) /\ vecOp'.src = Len(vecs)

SpecShape == VecInit /\ [][ShapeNext]_vars

RECURSIVE IsPowerOfTwo(_)
IsPowerOfTwo(n) ==
    IF n <= 1 THEN n = 1 ELSE n % 2 = 0 /\ IsPowerOfTwo(n \div 2)

\* C25: the shape of a PersistentVec.  Every vector that new, with_size,
\* from_iter, repeating, insert and push give has a capacity that is a
\* power of two, at least 2 and at least its size; lookup and insert at an
\* index from the size on return None; and the vector an insert returns has
\* the size and the capacity of the vector it was given.
VecShape ==
    /\ \A i \in 1..Len(vecs) :
          /\ IsPowerOfTwo(vecs[i].capacity)
          /\ vecs[i].capacity >= 2
          /\ vecs[i].capacity >= vecs[i].size
          /\ \A index \in vecs[i].size..(vecs[i].capacity + 1) :
                /\ VecLookup(nodes, vecs[i], index) = None
                /\ \A x \in VecItems :
                      VecInsert(nodes, vecs[i], index, x).res = None
    /\ vecOp.op = "insert" =>
          /\ ~vecOp.some <=> vecOp.index >= vecs[vecOp.src].size
          /\ vecOp.some =>
                /\ vecs[vecOp.out].size = vecs[vecOp.src].size
                /\ vecs[vecOp.out].capacity = vecs[vecOp.src].capacity

\* A constructor gave a vector of size 3 and capacity 4, a push filled it,
\* and an insert into the full vector gave one of size 4 and capacity 4.
VecShapeWitness ==
    /\ Len(vecs) = 3
    /\ vecs[1].size = 3
    /\ vecs[1].capacity = 4
    /\ vecs[2].size = 4
    /\ vecOp.op = "insert"
    /\ vecOp.some
    /\ vecs[3].size = 4
    /\ vecs[3].capacity = 4

(***************************************************************************)
(* Rejected definitions, under the definition specification.               *)
(***************************************************************************)
\* The last evaluation was a define that ended in the redefine-error of
\* define_handler.
DefineRejected ==
    /\ evalOp.op = "eval"
    /\ evalOp.k = "err"
    /\ evalOp.v.errname = "redefine-error"
    /\ evalOp.v.value = Some(Str(<<"symbol is already bound", "x">>))

\* C26: a define that fails with redefine-error leaves the state unchanged.
\* When define of a bound name is rejected because *allow-redefine* is
\* falsey, the top-level binding of the name still holds the value it had,
\* and no other binding of a frame that existed has changed.
RejectedDefineKeepsBindings ==
    DefineRejected =>
        /\ frames[1].bindings["x"] = framesPrev[1].bindings["x"]
        /\ \A e \in 1..Len(framesPrev) :
              frames[e].bindings = framesPrev[e].bindings

(***************************************************************************)
(* The parameter specification: procedures whose parameter lists repeat a  *)
(* name, built by lambda, case-lambda, define and define-macro, and        *)
(* applied to one and to two arguments, next to one whose names differ.    *)
(***************************************************************************)
Params(names) == List([i \in 1..Len(names) |-> Sym(names[i])])
LambdaOf(params, body) == List(<<Sym("lambda"), params, body>>)
Call2(head, x, y) == List(<<head, x, y>>)

\* (a . a)
PositionalAsRest == Cons(Sym("a"), Sym("a"))

ParamForms ==
    <<Call2(LambdaOf(Params(<<"a", "b">>), Sym("a")), IntV(1), IntV(2)),
      Call2(LambdaOf(Params(<<"a", "a">>), Sym("a")), IntV(1), IntV(2)),
      List(<<LambdaOf(Params(<<"a", "a">>), Sym("a")), IntV(1)>>),
      Call2(LambdaOf(PositionalAsRest, Sym("a")), IntV(1), IntV(2)),
      List(<<Sym("define"), Cons(Sym("f"), Params(<<"a", "a">>)), Sym("a")>>),
      Call2(Sym("f"), IntV(1), IntV(2)),
      List(<<Sym("define-macro"), Cons(Sym("m"), Params(<<"a", "a">>)),
             Sym("a")>>),
      Call2(Sym("m"), IntV(1), IntV(2)),
      Call2(List(<<Sym("case-lambda"),
                   List(<<Params(<<"a">>), Sym("a")>>),
                   List(<<Params(<<"a", "a">>), Sym("a")>>)>>),
            IntV(1), IntV(2))>>

ParamNext == DoEval(ParamForms)

SpecParam == EvalInit /\ [][ParamNext]_vars

\* C27: applying a procedure never trips the binding assertions.  For the
\* procedures lambda, case-lambda, define and define-macro construct, with
\* parameter lists that repeat a name or use a positional name again as the
\* rest name, every application ends in a value or in an error value and
\* never in a panic.
ApplicationNeverPanics ==
    evalOp.op = "eval" => evalOp.k \in {"ok", "err"}

(***************************************************************************)
(* parser/lexer.rs and parser/parser.rs.  The input is a finite sequence   *)
(* of characters drawn from Alphabet: the delimiters, a letter, a blank, a *)
(* reader character and the string quote.  A name is the sequence of its   *)
(* characters.  Digits, comments, string escapes and the dot of a dotted   *)
(* pair are not in the alphabet, and line and column numbers are left out. *)
(***************************************************************************)
MaxInput == 3

DoubleQuote == "\""

\* The backquote, a character that cannot be written in a string here.
Backquote == "bq"

Alphabet == {"(", ")", "[", "]", "a", " ", "'", DoubleQuote}

SPECIAL_CHARS == {"@", "'", Backquote, ",", "#", "\\"}

is_whitespace(c) == c \in {" ", "\t", "\n"}

\* The loop at the head of Lexer::next: what is left when the blanks in
\* front have been read.
RECURSIVE TrimWhitespace(_)
TrimWhitespace(src) ==
    IF src # <<>> /\ is_whitespace(Head(src)) THEN TrimWhitespace(Tail(src))
    ELSE src

\* parse_word: the number of characters up to a blank, a delimiter, a
\* reader character or the end of the input.
RECURSIVE ParseWord(_)
ParseWord(src) ==
    IF src = <<>> THEN 0
    ELSE IF is_whitespace(src[1]) \/ src[1] \in {"(", ")", "[", "]"}
            \/ src[1] \in SPECIAL_CHARS
    THEN 0
    ELSE 1 + ParseWord(Tail(src))

\* The string handler: the place of the closing quote, 0 when the input
\* ends before one.
RECURSIVE ClosingQuote(_)
ClosingQuote(src) ==
    IF src = <<>> THEN 0
    ELSE IF src[1] = DoubleQuote THEN 1
    ELSE IF ClosingQuote(Tail(src)) = 0 THEN 0
    ELSE 1 + ClosingQuote(Tail(src))

Lexed(tok, rest) == [res |-> Some([k |-> "ok", tok |-> tok]), src |-> rest]

\* The match on the first character that is no blank.
LexToken(ch, rest) ==
    CASE ch = "(" -> Lexed([tok |-> "OpenParen"], rest)
      [] ch = ")" -> Lexed([tok |-> "CloseParen"], rest)
      [] ch = "[" -> Lexed([tok |-> "OpenBracket"], rest)
      [] ch = "]" -> Lexed([tok |-> "CloseBracket"], rest)
      [] ch = DoubleQuote ->
            IF ClosingQuote(rest) = 0
            THEN [res |-> Some([k |-> "err",
                                err |-> [e |-> "LexError",
                                         of |-> "UnexpectedEndOfInput"]]),
                  src |-> <<>>]
            ELSE Lexed([tok |-> "QuotedString",
                        string |-> SubSeq(rest, 1, ClosingQuote(rest) - 1)],
                       SubSeq(rest, ClosingQuote(rest) + 1, Len(rest)))
      [] ch \in SPECIAL_CHARS -> Lexed([tok |-> "SpecialChar", c |-> ch], rest)
      [] OTHER ->
            Lexed([tok |-> "Ident",
                   name |-> <<ch>> \o SubSeq(rest, 1, ParseWord(rest))],
                  SubSeq(rest, ParseWord(rest) + 1, Len(rest)))

\* Lexer::next: None at the end of the input, and at every call after it.
LexerNext(src) ==
    IF TrimWhitespace(src) = <<>> THEN [res |-> None, src |-> <<>>]
    ELSE LexToken(Head(TrimWhitespace(src)), Tail(TrimWhitespace(src)))

\* form_lisp_list and make_vector
form_lisp_list(objs) == ToLispList(objs)
make_vector(objs) == [t |-> "vec", size |-> Len(objs), items |-> objs]

\* The handler run/mod.rs gives the parser, for the quote character.
HandleChar(c, obj) == ToLispList(<<Sym(<<"q", "u", "o", "t", "e">>), obj>>)

Pop(stk) == SubSeq(stk, 1, Len(stk) - 1)
Top(stk) == stk[Len(stk)]

\* push_obj: the item to return, if any, and the stack.
RECURSIVE PushObj(_, _, _)
PushObj(stk, obj, handler) ==
    IF stk = <<>> THEN [item |-> Some([k |-> "ok", v |-> obj]), stack |-> stk]
    ELSE IF Top(stk).state \in {"List", "Vector"}
    THEN [item |-> None,
          stack |-> [stk EXCEPT ![Len(stk)].objs = Append(@, obj)]]
    ELSE IF handler.some
    THEN PushObj(Pop(stk), HandleChar(Top(stk).c, obj), handler)
    ELSE [item |-> Some([k |-> "err",
                         err |-> [e |-> "NoCharHandler", c |-> Top(stk).c]]),
          stack |-> <<>>]

RECURSIVE ParserNextFrom(_, _, _)

\* The end of a turn of the loop that pushed an object.
Pushed(p, src, handler) ==
    IF p.item.some THEN [item |-> p.item, src |-> src, stack |-> p.stack]
    ELSE ParserNextFrom(src, p.stack, handler)

\* A closing delimiter: the top of the stack is popped, whatever it is.
Closing(tok, state, src, stk, handler) ==
    IF stk # <<>> /\ Top(stk).state = state
    THEN Pushed(PushObj(Pop(stk),
                        IF state = "List" THEN form_lisp_list(Top(stk).objs)
                        ELSE make_vector(Top(stk).objs),
                        handler),
                src, handler)
    ELSE [item |-> Some([k |-> "err",
                         err |-> [e |-> "UnexpectedDelimiter", tok |-> tok]]),
          src |-> src, stack |-> Pop(stk)]

\* The match on the token.
ParseToken(tok, src, stk, handler) ==
    CASE tok.tok = "OpenParen" ->
            ParserNextFrom(src, Append(stk, [state |-> "List", objs |-> <<>>]),
                           handler)
      [] tok.tok = "OpenBracket" ->
            ParserNextFrom(src, Append(stk, [state |-> "Vector", objs |-> <<>>]),
                           handler)
      [] tok.tok = "CloseParen" -> Closing(tok.tok, "List", src, stk, handler)
      [] tok.tok = "CloseBracket" -> Closing(tok.tok, "Vector", src, stk, handler)
      [] tok.tok = "Ident" ->
            Pushed(PushObj(stk, Sym(tok.name), handler), src, handler)
      [] tok.tok = "QuotedString" ->
            Pushed(PushObj(stk, Str(tok.string), handler), src, handler)
      [] tok.tok = "SpecialChar" ->
            ParserNextFrom(src, Append(stk, [state |-> "ReaderChar",
                                             c |-> tok.c, objs |-> <<>>]),
                           handler)

\* The loop of Parser::next from the input src with the stack stk: the item
\* returned, and the input and the stack the call leaves.
ParserNextFrom(src, stk, handler) ==
    Bind(LexerNext(src), LAMBDA lexed :
         IF ~lexed.res.some
         THEN IF stk = <<>>
              THEN [item |-> None, src |-> lexed.src, stack |-> stk]
              ELSE [item |-> Some([k |-> "err",
                                   err |-> [e |-> "UnexpectedEndOfInput",
                                            state |-> Top(stk).state]]),
                    src |-> lexed.src, stack |-> stk]
         ELSE IF lexed.res.v.k = "err"
         THEN [item |-> Some(lexed.res.v), src |-> lexed.src, stack |-> stk]
         ELSE ParseToken(lexed.res.v.tok, lexed.src, stk, handler))

(***************************************************************************)
(* The parser specification: the front end (main.rs) makes a parser on an  *)
(* input and loops over it, printing each item, error items too, until     *)
(* next returns None.  run/mod.rs does the same with a character handler.  *)
(***************************************************************************)
Inputs == UNION {[1..n -> Alphabet] : n \in 0..MaxInput}

ParseInit ==
    /\ VecIdle
    /\ EnvIdle
    /\ ErrIdle
    /\ EvalIdle
    /\ stream \in Inputs
    /\ stack = <<>>
    /\ char_handler \in {None, Some("handle_char")}
    /\ parseOp = [op |-> "none"]

\* The loop has ended when next has returned None.
Finished == parseOp.op = "next" /\ ~parseOp.item.some

\* One turn of the for loop: a call of next.  odd tells whether the number
\* of calls so far is odd.
DoParserNext ==
    /\ ~Finished
    /\ LET r == ParserNextFrom(stream, stack, char_handler)
       IN /\ stream' = r.src
          /\ stack' = r.stack
          /\ parseOp' = [op |-> "next", item |-> r.item,
                         odd |-> IF parseOp.op = "none" THEN TRUE
                                 ELSE ~parseOp.odd]
    /\ UNCHANGED <<char_handler, vecVars, envVars, errVars, evalVars>>

ParseNext == DoParserNext

SpecParse == ParseInit /\ [][ParseNext]_vars

\* The loop goes on for as long as it can: nothing else runs in the front
\* end.
SpecParseFair == SpecParse /\ WF_vars(ParseNext)

\* C28: the Parser iterator terminates on every finite input.  After
\* finitely many calls next returns None, also when the input ends inside
\* an unclosed list, vector or reader-character form, so that a loop over
\* the parser that goes on after an error item finishes.
ParserTerminates == <>Finished

(***************************************************************************)
(* The quasiquote specification: quasiquote on every template that is one  *)
(* of the atoms below or a list of up to MaxOperands of them.  The         *)
(* unquoted expressions are an integer and a quoted symbol.                *)
(***************************************************************************)
Unquote(expr) == List(<<Sym("unquote"), expr>>)
Quasiquote(template) == List(<<Sym("quasiquote"), template>>)

TemplateAtoms ==
    <<Sym("a"), Sym("b"), IntV(1), Unquote(IntV(5)), Unquote(Quote(Sym("c")))>>

QuasiForms ==
    [k \in 1..Len(TemplateAtoms) |-> Quasiquote(TemplateAtoms[k])]
    \o CallsOf("quasiquote",
               [k \in 1..Len(AtomListsUpTo(TemplateAtoms, MaxOperands)) |->
                   <<List(AtomListsUpTo(TemplateAtoms, MaxOperands)[k])>>])

QuasiNext == DoEval(QuasiForms)

SpecQuasi == EvalInit /\ [][QuasiNext]_vars

\* The template with each (unquote e) replaced by the value of e: an integer
\* is its own value and (quote c) has the value c.
RECURSIVE Filled(_)
Filled(template) ==
    IF template.t # "cons" THEN template
    ELSE IF template.car = Sym("unquote") /\ template.cdr.t = "cons"
            /\ template.cdr.cdr = Nil
    THEN IF template.cdr.car.t = "cons" THEN template.cdr.car.cdr.car
         ELSE template.cdr.car
    ELSE Cons(Filled(template.car), Filled(template.cdr))

\* C29: quasiquote returns its template with only the unquoted parts
\* evaluated.  (quasiquote t) yields t with each sub-form (unquote e)
\* replaced by the value of e and everything else as it is; a template
\* without unquote, such as a list of two symbols, is returned unchanged,
\* and no error is raised.
QuasiquoteFillsTemplate ==
    evalOp.op = "eval" =>
        /\ evalOp.k = "ok"
        /\ evalOp.v = Filled(evalOp.form.cdr.car)

(***************************************************************************)
(* Propagation through procedures, under the raise specification.          *)
(***************************************************************************)
\* The places in the cause chain of the last outcome whose source is a
\* procedure, and the returns of procedures that returned an error.
ProcedureNodes ==
    {i \in 1..ChainLength(evalOp.v) :
        /\ ChainNode(evalOp.v, i).source.some
        /\ ChainNode(evalOp.v, i).source.v.t = "proc"}

FailedReturns ==
    {j \in 1..Len(evalOp.tr) :
        evalOp.tr[j].ev = "lambda_ret" /\ evalOp.tr[j].k = "err"}

\* C30: propagation through procedures keeps the error kind.  An error
\* raised inside a procedure body and propagated out through nested
\* procedure applications reaches the outermost caller with the kind name
\* and the value it was raised with, and so does every node of its cause
\* chain; each procedure the error left has added exactly one node, whose
\* source is that procedure and whose cause is the error as the procedure's
\* body returned it.
PropagationKeepsKind ==
    evalOp.op = "eval" /\ evalOp.k = "err" =>
        /\ \A i \in 1..ChainLength(evalOp.v) :
              /\ ChainNode(evalOp.v, i).errname = RaiseSite(evalOp.v).errname
              /\ ChainNode(evalOp.v, i).value = RaiseSite(evalOp.v).value
        /\ Cardinality(ProcedureNodes) = Cardinality(FailedReturns)
        /\ \A j \in FailedReturns :
              /\ Cardinality({i \in 1..ChainLength(evalOp.v) :
                     ChainNode(evalOp.v, i).cause = Some(evalOp.tr[j].v)}) = 1
              /\ \A i \in 1..ChainLength(evalOp.v) :
                    ChainNode(evalOp.v, i).cause = Some(evalOp.tr[j].v)
                    => /\ i \in ProcedureNodes
                       /\ ChainNode(evalOp.v, i).source.v.id = evalOp.tr[j].id

\* (k) has failed: the type-error car raised in f left f, the procedure k
\* applies and k, and reached the caller as a type-error with three nodes
\* around the one car raised.
PropagationWitness ==
    /\ evalOp.op = "eval"
    /\ evalOp.form = Call0("k")
    /\ evalOp.k = "err"
    /\ evalOp.v.errname = "type-error"
    /\ RaiseSite(evalOp.v).source = Some(Native("car"))
    /\ Cardinality(FailedReturns) = 3
    /\ ChainLength(evalOp.v) = 4
====
